---- MODULE Spec2Model ----
(***************************************************************************)
(* Orbital mechanics and time keeping of the solar-system visualizer.      *)
(*                                                                         *)
(* JavaScript numbers are modelled in fixed point: a number v is the       *)
(* integer v * Scale (angles in radians or degrees, lengths in scene       *)
(* units, frame times in seconds).  The simulation date is a JavaScript    *)
(* Date: a whole number of milliseconds, or NaN (Invalid Date); it is kept *)
(* as a day count plus ticks within the day so that the whole Date range   *)
(* of +-8.64e15 ms is representable.                                       *)
(***************************************************************************)
EXTENDS Integers, Sequences, FiniteSets, TLC

\* ------------------------------------------------------------------------
\* Fixed-point numbers
\* ------------------------------------------------------------------------

\* one unit of a modelled number is 1/Scale (1e-6, the solver's tolerance)
Scale == 1000000

\* half of Scale's decimal digits: numbers are split at Limb to multiply
Limb == 1000

\* the non-finite IEEE doubles (0/0 and x/0): the three largest integers stand
\* for them, finite numbers stay below
NaN == 2147483645

PosInf == 2147483646

NegInf == 2147483647

IsNum(v) == v \notin {NaN, PosInf, NegInf}

Abs(a) == IF a < 0 THEN -a ELSE a

Sgn(a) == IF a < 0 THEN -1 ELSE IF a > 0 THEN 1 ELSE 0

\* a * b of two non-negative fixed-point numbers, rounded down
MulNat(a, b) ==
  LET ah == a \div Limb
      al == a % Limb
      bh == b \div Limb
      bl == b % Limb
  IN  ah * bh + ((ah * bl + al * bh + ((al * bl) \div Limb)) \div Limb)

\* a * b, rounded toward zero
FMul(a, b) == Sgn(a) * Sgn(b) * MulNat(Abs(a), Abs(b))

\* the first n decimal digits of r / b after the point (0 <= r < b),
\* appended to acc
RECURSIVE FracDigits(_, _, _, _)
FracDigits(r, b, n, acc) ==
  IF n = 0 THEN acc
  ELSE FracDigits((r * 10) % b, b, n - 1, acc * 10 + ((r * 10) \div b))

\* a / b of fixed-point numbers, rounded toward zero (b # 0)
FDiv(a, b) ==
  LET na == Abs(a)
      nb == Abs(b)
  IN  Sgn(a) * Sgn(b) * FracDigits(na % nb, nb, 6, na \div nb)

\* Math.PI and its multiples, in units of 1/Scale
Pi == 3141593

TwoPi == 2 * Pi

HalfPi == Pi \div 2

\* JavaScript's a % m (m > 0): the remainder has the sign of a
JsMod(a, m) == Sgn(a) * (Abs(a) % m)

\* the series 1 - x2/(d(k)) * (1 - x2/(d(k+1)) * (...)) of sine (odd = 1)
\* and cosine (odd = 0), Horner form, terms k..last
RECURSIVE TrigSeries(_, _, _, _)
TrigSeries(x2, odd, k, last) ==
  IF k > last THEN Scale
  ELSE Scale - (FMul(x2, TrigSeries(x2, odd, k + 1, last))
                  \div ((2 * k - 1 + odd) * (2 * k + odd)))

\* sine and cosine of an angle within [-pi/2, pi/2]; eight series terms are
\* kept, the next one is below one unit
SinSmall(x) == FMul(x, TrigSeries(FMul(x, x), 1, 1, 8))

CosSmall(x) == TrigSeries(FMul(x, x), 0, 1, 8)

\* the angle reduced to (-pi, pi]
ReduceAngle(x) ==
  LET r == x % TwoPi
  IN  IF r > Pi THEN r - TwoPi ELSE r

\* Math.sin
Sin(x) ==
  LET r == ReduceAngle(x)
  IN  IF r > HalfPi THEN SinSmall(Pi - r)
      ELSE IF r < -HalfPi THEN SinSmall(-Pi - r)
      ELSE SinSmall(r)

\* Math.cos
Cos(x) ==
  LET r == ReduceAngle(x)
  IN  IF r > HalfPi THEN -CosSmall(Pi - r)
      ELSE IF r < -HalfPi THEN -CosSmall(-Pi - r)
      ELSE CosSmall(r)

\* Newton iteration for the square root, from estimate x
RECURSIVE SqrtIter(_, _, _)
SqrtIter(a, x, n) ==
  LET y == (x + FDiv(a, x)) \div 2
  IN  IF n = 0 \/ y >= x THEN x ELSE SqrtIter(a, y, n - 1)

\* Math.sqrt of a non-negative number
Sqrt(a) == IF a = 0 THEN 0 ELSE SqrtIter(a, IF a > Scale THEN a ELSE Scale, 40)

\* the series z - z^3/3 + z^5/5 - ... of the arctangent, Horner form
RECURSIVE AtanSeries(_, _, _)
AtanSeries(z2, k, last) ==
  IF k > last THEN 0
  ELSE (Scale \div (2 * k + 1)) - FMul(z2, AtanSeries(z2, k + 1, last))

\* arctangent of q in [0, 1]: above tan(pi/8) use
\* atan q = pi/4 + atan((q - 1)/(q + 1))
AtanUnit(q) ==
  LET z == IF q > 414214 THEN FDiv(q - Scale, q + Scale) ELSE q
      a == FMul(z, AtanSeries(FMul(z, z), 0, 8))
  IN  IF q > 414214 THEN (HalfPi \div 2) + a ELSE a

\* Math.atan(y / x), the principal value in [-pi/2, pi/2], without forming
\* the quotient (which leaves the fixed-point range next to x = 0)
AtanRatio(y, x) ==
  LET ny == Abs(y)
      nx == Abs(x)
      s  == IF x = 0 THEN Sgn(y) ELSE Sgn(y) * Sgn(x)
  IN  IF ny = 0 THEN 0
      ELSE IF ny <= nx THEN s * AtanUnit(FDiv(ny, nx))
      ELSE s * (HalfPi - AtanUnit(FDiv(nx, ny)))

\* ------------------------------------------------------------------------
\* Kepler solver (utils/orbitalMechanics)
\* ------------------------------------------------------------------------

\* default arguments of solveKeplerEquation
DefaultTolerance == 1

DefaultMaxIterations == 50

\* let M = meanAnomaly % (2 * Math.PI); if (M < 0) M += 2 * Math.PI
NormalizeAnomaly(meanAnomaly) ==
  LET M == JsMod(meanAnomaly, TwoPi)
  IN  IF M < 0 THEN M + TwoPi ELSE M

\* let E = M + eccentricity * Math.sin(M)
InitialGuess(M, eccentricity) == M + FMul(eccentricity, Sin(M))

\* the residual with the cosine in place of the sine
KeplerResidualCosine(E, M, eccentricity) == E - FMul(eccentricity, Cos(E)) - M

\* E - eccentricity * Math.sin(E) - M
KeplerResidual(E, M, eccentricity) == E - FMul(eccentricity, Sin(E)) - M

\* const dE = (E - e sin E - M) / (1 - e cos E); division by zero gives an
\* infinity or NaN, and every operation on a non-finite E gives NaN
NewtonDelta(E, M, eccentricity) ==
  IF ~IsNum(E) THEN NaN
  ELSE LET num == KeplerResidual(E, M, eccentricity)
           den == Scale - FMul(eccentricity, Cos(E))
       IN  IF den = 0
           THEN (IF num = 0 THEN NaN ELSE IF num > 0 THEN PosInf ELSE NegInf)
           ELSE FDiv(num, den)

\* E -= dE
NewtonUpdate(E, dE) ==
  IF ~IsNum(E) \/ dE = NaN THEN NaN
  ELSE IF dE = PosInf THEN NegInf
  ELSE IF dE = NegInf THEN PosInf
  ELSE E - dE

\* Math.abs(dE) < tolerance (false for NaN and the infinities)
Converged(dE, tolerance) == IsNum(dE) /\ Abs(dE) < tolerance

\* the loop test off by one
LoopContinuesInclusive(i, maxIterations) == i <= maxIterations

\* for (let i = 0; i < maxIterations; i++)
LoopContinues(i, maxIterations) == i < maxIterations

\* the for loop of solveKeplerEquation from iteration i with estimate E
RECURSIVE NewtonLoop(_, _, _, _, _, _)
NewtonLoop(E, M, eccentricity, tolerance, maxIterations, i) ==
  IF ~LoopContinues(i, maxIterations) THEN E
  ELSE LET dE == NewtonDelta(E, M, eccentricity)
           E2 == NewtonUpdate(E, dE)
       IN  IF Converged(dE, tolerance) THEN E2
           ELSE NewtonLoop(E2, M, eccentricity, tolerance, maxIterations, i + 1)

solveKeplerEquation(meanAnomaly, eccentricity, tolerance, maxIterations) ==
  LET M == NormalizeAnomaly(meanAnomaly)
  IN  NewtonLoop(InitialGuess(M, eccentricity), M, eccentricity,
                 tolerance, maxIterations, 0)

\* eccentricToTrueAnomaly: 2 atan(sqrt((1+e)/(1-e)) tan(E/2)), with
\* tan = sin/cos (eccentricity < 1)
eccentricToTrueAnomaly(eccentricAnomaly, eccentricity) ==
  LET sqrtTerm == Sqrt(FDiv(Scale + eccentricity, Scale - eccentricity))
      half     == eccentricAnomaly \div 2
  IN  2 * AtanRatio(FMul(sqrtTerm, Sin(half)), Cos(half))

\* ------------------------------------------------------------------------
\* Position and path generator (utils/orbitalMechanics)
\* ------------------------------------------------------------------------

\* new THREE.Vector3(x, y, z)
Vector3(x, y, z) == [x |-> x, y |-> y, z |-> z]

\* an optional field of the orbital elements with its destructuring default
Optional(elements, field, default) ==
  IF field \in DOMAIN elements THEN elements[field] ELSE default

applyOrbitalInclinationFlatZ(x, z, inclination, longitudeOfAscendingNode) ==
  LET cosOmega == Cos(longitudeOfAscendingNode)
      sinOmega == Sin(longitudeOfAscendingNode)
      cosI     == Cos(inclination)
      sinI     == Sin(inclination)
      x1 == FMul(x, cosOmega) - FMul(FMul(z, sinOmega), cosI)
      y1 == FMul(z, sinI)
      z1 == FMul(x, sinOmega) + FMul(z, cosOmega)
  IN  Vector3(x1, y1, z1)

applyOrbitalInclination(x, z, inclination, longitudeOfAscendingNode) ==
  LET cosOmega == Cos(longitudeOfAscendingNode)
      sinOmega == Sin(longitudeOfAscendingNode)
      cosI     == Cos(inclination)
      sinI     == Sin(inclination)
      x1 == FMul(x, cosOmega) - FMul(FMul(z, sinOmega), cosI)
      y1 == FMul(z, sinI)
      z1 == FMul(x, sinOmega) + FMul(FMul(z, cosOmega), cosI)
  IN  Vector3(x1, y1, z1)

\* the distance with 1 - e in place of 1 - e^2
FocusDistanceLinear(semiMajorAxis, eccentricity, trueAnomaly) ==
  FDiv(FMul(semiMajorAxis, Scale - eccentricity),
       Scale + FMul(eccentricity, Cos(trueAnomaly)))

\* r = a(1 - e^2) / (1 + e cos(nu))
FocusDistance(semiMajorAxis, eccentricity, trueAnomaly) ==
  FDiv(FMul(semiMajorAxis, Scale - FMul(eccentricity, eccentricity)),
       Scale + FMul(eccentricity, Cos(trueAnomaly)))

\* the point with the sine and cosine of the in-plane angle exchanged
PointAtTrueAnomalySwapped(elements, trueAnomaly) ==
  LET distance     == FocusDistance(elements.semiMajorAxis,
                                    elements.eccentricity, trueAnomaly)
      angleInOrbit == trueAnomaly + elements.periapsisArgument
      x == FMul(distance, Sin(angleInOrbit))
      z == FMul(distance, Cos(angleInOrbit))
  IN  applyOrbitalInclination(x, z,
        Optional(elements, "inclination", 0),
        Optional(elements, "longitudeOfAscendingNode", 0))

\* the point of the orbit at a true anomaly: distance, periapsis rotation and
\* inclination (shared by calculateOrbitalPosition and generateEllipsePoints)
PointAtTrueAnomaly(elements, trueAnomaly) ==
  LET distance     == FocusDistance(elements.semiMajorAxis,
                                    elements.eccentricity, trueAnomaly)
      angleInOrbit == trueAnomaly + elements.periapsisArgument
      x == FMul(distance, Cos(angleInOrbit))
      z == FMul(distance, Sin(angleInOrbit))
  IN  applyOrbitalInclination(x, z,
        Optional(elements, "inclination", 0),
        Optional(elements, "longitudeOfAscendingNode", 0))

\* the position with the speed multiplier applied to the epoch anomaly too
calculateOrbitalPositionScaledEpoch(elements, time, speedMultiplier) ==
  LET meanAnomaly == FMul(elements.meanAnomalyAtEpoch + time, speedMultiplier)
      eccentricAnomaly ==
        solveKeplerEquation(meanAnomaly, elements.eccentricity,
                            DefaultTolerance, DefaultMaxIterations)
      trueAnomaly ==
        eccentricToTrueAnomaly(eccentricAnomaly, elements.eccentricity)
  IN  PointAtTrueAnomaly(elements, trueAnomaly)

calculateOrbitalPosition(elements, time, speedMultiplier) ==
  LET meanAnomaly == elements.meanAnomalyAtEpoch + FMul(time, speedMultiplier)
      eccentricAnomaly ==
        solveKeplerEquation(meanAnomaly, elements.eccentricity,
                            DefaultTolerance, DefaultMaxIterations)
      trueAnomaly ==
        eccentricToTrueAnomaly(eccentricAnomaly, elements.eccentricity)
  IN  PointAtTrueAnomaly(elements, trueAnomaly)

\* const trueAnomaly = (i / segments) * Math.PI * 2
SampleAnomaly(i, segments) == FMul(FDiv(i * Scale, segments * Scale), Pi) * 2

\* the loop test that leaves the last sample out
EllipseLoopContinuesExclusive(i, segments) == i < segments

\* for (let i = 0; i <= segments; i++)
EllipseLoopContinues(i, segments) == i <= segments

\* the loop of generateEllipsePoints from index i with the points pushed
RECURSIVE EllipseLoop(_, _, _, _)
EllipseLoop(elements, segments, i, points) ==
  IF ~EllipseLoopContinues(i, segments) THEN points
  ELSE EllipseLoop(elements, segments, i + 1,
         Append(points, PointAtTrueAnomaly(elements, SampleAnomaly(i, segments))))

generateEllipsePoints(elements, segments) ==
  EllipseLoop(elements, segments, 0, <<>>)

\* ------------------------------------------------------------------------
\* Epoch and time (data/ephemeris, composables/useSimulationTime)
\* ------------------------------------------------------------------------

MS_PER_DAY == 86400000

\* A time or a day count is [nan, day, ms]: the number day + ms/MS_PER_DAY
\* of days with 0 <= ms < MS_PER_DAY, or NaN.  A Date holds its time value
\* (days since 1970-01-01) in this form.
Days(day, ms) ==
  [nan |-> FALSE, day |-> day + (ms \div MS_PER_DAY), ms |-> ms % MS_PER_DAY]

NaNDays == [nan |-> TRUE, day |-> 0, ms |-> 0]

\* J2000.0 epoch as Julian Date: 2451545.0
J2000_EPOCH == Days(2451545, 0)

\* the Julian Date of the Unix epoch: 2440587.5
UnixEpochJD == Days(2440587, MS_PER_DAY \div 2)

AddDays(a, b) ==
  IF a.nan \/ b.nan THEN NaNDays ELSE Days(a.day + b.day, a.ms + b.ms)

SubDays(a, b) ==
  IF a.nan \/ b.nan THEN NaNDays ELSE Days(a.day - b.day, a.ms - b.ms)

\* the largest time value of a Date: 8.64e15 ms = 100,000,000 days
MaxDateDays == 100000000

\* new Date(value) for a time of day + tenths/(10 MS_PER_DAY) days, tenths
\* of a millisecond being the resolution of a number of 1/Scale days:
\* TimeClip gives NaN beyond +-8.64e15 ms and drops the fraction of a
\* millisecond toward zero
TimeClip(day, tenths) ==
  LET d  == day + (tenths \div (10 * MS_PER_DAY))
      t  == tenths % (10 * MS_PER_DAY)
      ms == IF d >= 0 THEN t \div 10 ELSE (t + 9) \div 10
  IN  IF d > MaxDateDays \/ (d = MaxDateDays /\ t > 0) \/ d < -MaxDateDays
      THEN NaNDays
      ELSE Days(d, ms)

\* new Date(date): a copy, an Invalid Date stays invalid
NewDate(time) == IF time.nan THEN NaNDays ELSE TimeClip(time.day, 10 * time.ms)

\* dateToJulianDate with the half day of the offset dropped
dateToJulianDateWholeOffset(date) == AddDays(date, Days(2440587, 0))

\* dateToJulianDate: date.getTime() / MS_PER_DAY + 2440587.5
dateToJulianDate(date) == AddDays(date, UnixEpochJD)

\* the inverse transform with the half day of the offset dropped
julianDateToDateWholeOffset(jd) == NewDate(SubDays(jd, Days(2440587, 0)))

\* julianDateToDate: new Date((jd - 2440587.5) * MS_PER_DAY)
julianDateToDate(jd) == NewDate(SubDays(jd, UnixEpochJD))

\* daysSinceJ2000: dateToJulianDate(date) - J2000_EPOCH
daysSinceJ2000(date) == SubDays(dateToJulianDate(date), J2000_EPOCH)

\* advanceTime with the speed multiplier left out
AdvancedDateUnscaled(simulationDate, deltaSeconds, speedMultiplier) ==
  LET simulationDays == deltaSeconds
      whole  == simulationDays \div Scale
      tenths == (simulationDays % Scale) * ((10 * MS_PER_DAY) \div Scale)
  IN  IF simulationDate.nan THEN NaNDays
      ELSE TimeClip(simulationDate.day + whole, 10 * simulationDate.ms + tenths)

\* advanceTime: the new simulationDate.  simulationDays is a number of
\* 1/Scale days, so simulationDays * MS_PER_DAY has tenths of milliseconds
AdvancedDate(simulationDate, deltaSeconds, speedMultiplier) ==
  LET simulationDays == FMul(deltaSeconds, speedMultiplier)
      whole  == simulationDays \div Scale
      tenths == (simulationDays % Scale) * ((10 * MS_PER_DAY) \div Scale)
  IN  IF simulationDate.nan THEN NaNDays
      ELSE TimeClip(simulationDate.day + whole, 10 * simulationDate.ms + tenths)

\* jumpToEpoch: the new simulationDate
EpochDate == julianDateToDate(J2000_EPOCH)

\* ------------------------------------------------------------------------
\* Ephemeris table (data/ephemeris)
\* ------------------------------------------------------------------------

\* meanAnomalyAtEpoch (degrees) and meanMotion (degrees/day), in units of
\* 1/Scale
PLANET_EPHEMERIS ==
  [Mercury  |-> [meanAnomalyAtEpoch |-> 174796000, meanMotion |-> 4092334],
   Venus    |-> [meanAnomalyAtEpoch |->  50115000, meanMotion |-> 1602130],
   Earth    |-> [meanAnomalyAtEpoch |-> 357529000, meanMotion |->  985600],
   Mars     |-> [meanAnomalyAtEpoch |->  19373000, meanMotion |->  524021],
   Jupiter  |-> [meanAnomalyAtEpoch |->  20020000, meanMotion |->   83085],
   Saturn   |-> [meanAnomalyAtEpoch |-> 317020000, meanMotion |->   33444],
   Uranus   |-> [meanAnomalyAtEpoch |-> 142238000, meanMotion |->   11728],
   Neptune  |-> [meanAnomalyAtEpoch |-> 256228000, meanMotion |->    5981],
   Ceres    |-> [meanAnomalyAtEpoch |->  95989000, meanMotion |->  214082],
   Pluto    |-> [meanAnomalyAtEpoch |->  14530000, meanMotion |->    3976],
   Haumea   |-> [meanAnomalyAtEpoch |-> 218205000, meanMotion |->    3484],
   Makemake |-> [meanAnomalyAtEpoch |-> 165514000, meanMotion |->    3181],
   Eris     |-> [meanAnomalyAtEpoch |-> 204160000, meanMotion |->    1763]]

\* 360 degrees
FullCircle == 360 * Scale

\* An angle in degrees too large for one fixed-point number is
\* [turns, rem]: turns * 360 + rem/Scale degrees with 0 <= rem < FullCircle.
Turns(turns, rem) ==
  [turns |-> turns + (rem \div FullCircle), rem |-> rem % FullCircle]

\* a * b as quotient and remainder by c (a, b >= 0, 0 < c < 2^30), by
\* doubling, so that no intermediate product leaves the integer range
RECURSIVE MulDivMod(_, _, _)
MulDivMod(a, b, c) ==
  IF b = 0 THEN [q |-> 0, r |-> 0]
  ELSE LET h   == MulDivMod(a, b \div 2, c)
           sum == 2 * h.r + (IF b % 2 = 1 THEN a % c ELSE 0)
       IN  [q |-> 2 * h.q + (IF b % 2 = 1 THEN a \div c ELSE 0) + (sum \div c),
            r |-> sum % c]

\* ephemeris.meanMotion * daysSinceEpoch, in degrees
MotionSince(meanMotion, daysSinceEpoch) ==
  LET whole == MulDivMod(meanMotion, Abs(daysSinceEpoch.day), FullCircle)
      part  == MulDivMod(meanMotion, daysSinceEpoch.ms, MS_PER_DAY).q
  IN  IF daysSinceEpoch.day >= 0
      THEN Turns(whole.q, whole.r + part)
      ELSE Turns(-whole.q, part - whole.r)

\* JavaScript's angle % 360: the remainder has the sign of the dividend
JsMod360(angle) ==
  IF angle.turns >= 0 \/ angle.rem = 0 THEN angle.rem
  ELSE angle.rem - FullCircle

\* the normalisation by the remainder alone
NormalizeDegreesRemainderOnly(meanAnomaly) == JsMod360(meanAnomaly)

\* return ((meanAnomaly % 360) + 360) % 360
NormalizeDegrees(meanAnomaly) ==
  JsMod(JsMod360(meanAnomaly) + FullCircle, FullCircle)

\* The tables are object literals, so table[bodyName] also finds the
\* members every object inherits from Object.prototype: for these names the
\* lookup gives a function (an object for __proto__), neither undefined nor
\* a table entry
ObjectPrototype ==
  {"constructor", "toString", "toLocaleString", "valueOf", "hasOwnProperty",
   "isPrototypeOf", "propertyIsEnumerable", "__proto__"}

\* a value that is not a number: an inherited member returned as it is
InheritedMember == 2147483644

\* the lookup without the guard for a missing entry: reading a field of
\* undefined throws
calculateMeanAnomalyNoGuard(bodyName, daysSinceEpoch) ==
  IF bodyName \in ObjectPrototype
  THEN [value |-> NaN, warned |-> FALSE, thrown |-> FALSE]
  ELSE IF bodyName \notin DOMAIN PLANET_EPHEMERIS
  THEN [value |-> NaN, warned |-> FALSE, thrown |-> TRUE]
  ELSE LET ephemeris == PLANET_EPHEMERIS[bodyName]
           motion == MotionSince(ephemeris.meanMotion, daysSinceEpoch)
           meanAnomaly ==
             Turns(motion.turns, motion.rem + ephemeris.meanAnomalyAtEpoch)
       IN  [value  |-> IF daysSinceEpoch.nan THEN NaN
                       ELSE NormalizeDegrees(meanAnomaly),
            warned |-> FALSE,
            thrown |-> FALSE]

\* calculateMeanAnomaly: the value returned (NaN for a NaN day count),
\* whether console.warn was called, and whether the call threw.  An
\* inherited member passes the guard and has neither meanAnomalyAtEpoch nor
\* meanMotion: undefined + undefined * daysSinceEpoch is NaN
calculateMeanAnomaly(bodyName, daysSinceEpoch) ==
  IF bodyName \in ObjectPrototype
  THEN [value |-> NaN, warned |-> FALSE, thrown |-> FALSE]
  ELSE IF bodyName \notin DOMAIN PLANET_EPHEMERIS
  THEN [value |-> 0, warned |-> TRUE, thrown |-> FALSE]
  ELSE LET ephemeris == PLANET_EPHEMERIS[bodyName]
           motion == MotionSince(ephemeris.meanMotion, daysSinceEpoch)
           meanAnomaly ==
             Turns(motion.turns, motion.rem + ephemeris.meanAnomalyAtEpoch)
       IN  [value  |-> IF daysSinceEpoch.nan THEN NaN
                       ELSE NormalizeDegrees(meanAnomaly),
            warned |-> FALSE,
            thrown |-> FALSE]

\* sidereal rotation periods in Earth days, negative for retrograde rotation
ROTATION_PERIODS ==
  [Mercury  |-> 58646000, Venus   |-> -243025000, Earth  |-> 997270,
   Mars     |-> 1025960,  Jupiter |-> 413540,     Saturn |-> 444010,
   Uranus   |-> -718330,  Neptune |-> 671250,     Ceres  |-> 378100,
   Pluto    |-> -6387200, Haumea  |-> 163000,     Makemake |-> 937500,
   Eris     |-> 1080000]

\* getRotationPeriod: ROTATION_PERIODS[bodyName] ?? 1; ?? replaces only
\* undefined and null, not an inherited member
getRotationPeriod(bodyName) ==
  IF bodyName \in DOMAIN ROTATION_PERIODS THEN ROTATION_PERIODS[bodyName]
  ELSE IF bodyName \in ObjectPrototype THEN InheritedMember
  ELSE Scale

\* ------------------------------------------------------------------------
\* Scene configuration (components/TheExperience, Planet, Moon, belts)
\* ------------------------------------------------------------------------

\* const speedMultipliers = [1, 2, 4, 6, 8, 10]
speedMultipliers ==
  <<1 * Scale, 2 * Scale, 4 * Scale, 6 * Scale, 8 * Scale, 10 * Scale>>

\* The planets of the modelled scene, with the props of the Planet
\* component (angles in degrees): Earth as in the planets array, and a body
\* whose name has no ephemeris entry and whose rotationSpeed is set to 0
PlanetProps ==
  [Earth  |-> [distance |-> 70 * Scale, eccentricity |-> 17000,
               periapsisArgument |-> 103 * Scale, inclination |-> 0,
               longitudeOfAscendingNode |-> 0, axialTilt |-> 23440000,
               moons |-> <<"Moon">>],
   Vulcan |-> [distance |-> 50 * Scale, eccentricity |-> 0,
               periapsisArgument |-> 0, axialTilt |-> 0,
               rotationSpeed |-> 0, moons |-> <<"Phaeton">>]]

\* the props of the Moon component; Phaeton spins backwards
MoonProps ==
  [Moon    |-> [distance |-> 3500000, speed |-> 500000,
                eccentricity |-> 55000, periapsisArgument |-> 0],
   Phaeton |-> [distance |-> 5 * Scale, speed |-> 500000,
                eccentricity |-> 0, periapsisArgument |-> 0,
                rotationSpeed |-> -300000]]

Planets == DOMAIN PlanetProps

Moons == DOMAIN MoonProps

\* the planet a moon is rendered by (v-for over props.moons)
ParentOf(m) == CHOOSE p \in Planets :
                 \E i \in DOMAIN PlanetProps[p].moons : PlanetProps[p].moons[i] = m

\* degrees to radians: (deg * Math.PI) / 180
DegToRad(deg) == FDiv(FMul(deg, Pi), 180 * Scale)

\* const axialTiltRadians = (props.axialTilt || 0) * (Math.PI / 180)
axialTiltRadians(p) ==
  FMul(Optional(PlanetProps[p], "axialTilt", 0), FDiv(Pi, 180 * Scale))

\* a || b on numbers: b when a is absent or 0
OrDefault(props, field, default) ==
  IF field \in DOMAIN props /\ props[field] # 0 THEN props[field] ELSE default

\* Planet: currentMeanAnomaly, degrees to radians (NaN stays NaN)
currentMeanAnomaly(p, daysSinceEpoch) ==
  LET m == calculateMeanAnomaly(p, daysSinceEpoch).value
  IN  IF IsNum(m) THEN FDiv(FMul(m, Pi), 180 * Scale) ELSE NaN

\* Planet: orbitalElements
PlanetElements(p, daysSinceEpoch) ==
  [semiMajorAxis      |-> PlanetProps[p].distance,
   eccentricity       |-> Optional(PlanetProps[p], "eccentricity", 0),
   periapsisArgument  |-> DegToRad(Optional(PlanetProps[p], "periapsisArgument", 0)),
   meanAnomalyAtEpoch |-> currentMeanAnomaly(p, daysSinceEpoch),
   inclination        |-> DegToRad(Optional(PlanetProps[p], "inclination", 0)),
   longitudeOfAscendingNode |->
     DegToRad(Optional(PlanetProps[p], "longitudeOfAscendingNode", 0))]

\* Moon: orbitalElements; meanAnomalyAtEpoch is the Math.random() draw kept
\* by the computed
MoonElements(m, seed) ==
  [semiMajorAxis      |-> MoonProps[m].distance,
   eccentricity       |-> Optional(MoonProps[m], "eccentricity", 0),
   periapsisArgument  |-> DegToRad(Optional(MoonProps[m], "periapsisArgument", 0)),
   meanAnomalyAtEpoch |-> seed]

\* the tilt applied with the sign of the rotation reversed
MoonWorldPositionTiltReversed(planetPosition, localPosition, planetAxialTilt) ==
  LET tiltedY == FMul(localPosition.y, Cos(planetAxialTilt))
                   + FMul(localPosition.z, Sin(planetAxialTilt))
      tiltedZ == FMul(localPosition.z, Cos(planetAxialTilt))
                   - FMul(localPosition.y, Sin(planetAxialTilt))
  IN  Vector3(planetPosition.x + localPosition.x,
              planetPosition.y + tiltedY,
              planetPosition.z + tiltedZ)

\* Moon: the local position tilted about the X axis and offset by the planet
MoonWorldPosition(planetPosition, localPosition, planetAxialTilt) ==
  LET tiltedY == FMul(localPosition.y, Cos(planetAxialTilt))
                   - FMul(localPosition.z, Sin(planetAxialTilt))
      tiltedZ == FMul(localPosition.y, Sin(planetAxialTilt))
                   + FMul(localPosition.z, Cos(planetAxialTilt))
  IN  Vector3(planetPosition.x + localPosition.x,
              planetPosition.y + tiltedY,
              planetPosition.z + tiltedZ)

\* AsteroidBelt: the position of an asteroid at its orbital angle
AsteroidPosition(orbit) ==
  LET trueAnomaly  == orbit.angle
      r            == FocusDistance(orbit.radius, orbit.eccentricity, trueAnomaly)
      orbitalAngle == trueAnomaly + orbit.periapsisArg
      x     == FMul(Cos(orbitalAngle), r)
      zFlat == FMul(Sin(orbitalAngle), r)
  IN  Vector3(x, FMul(Sin(orbit.inclination), zFlat),
              FMul(Cos(orbit.inclination), zFlat))

\* KuiperBelt: the position of an object at its orbital angle
KuiperPosition(data) ==
  Vector3(FMul(Cos(data.angle), data.radius),
          FMul(FMul(Sin(data.inclination), data.radius), Scale \div 10),
          FMul(Sin(data.angle), data.radius))

\* ------------------------------------------------------------------------
\* Bounds and inputs
\* ------------------------------------------------------------------------

\* frames rendered in one run
MaxFrames == 2

\* UI events (pause, speed, date buttons) in one run
MaxEvents == 2

\* objects of each belt (props.count)
BeltCount == 1

\* frame times in seconds: 1/60 s and 0.1 s
FrameDeltas == {16667, 100000}

\* wall-clock dates of new Date(): 2026-11-05T10:16:40.123Z
NowSet == {Days(20762, 37000123)}

\* draws of Math.random() * Math.PI * 2
AngleSeeds == {0, HalfPi}

\* ------------------------------------------------------------------------
\* State
\* ------------------------------------------------------------------------

VARIABLES
  isPaused,          \* TheExperience: isPaused
  currentSpeedIndex, \* TheExperience: currentSpeedIndex (0-based)
  simulationSpeed,   \* TheExperience: simulationSpeed
  simulationDate,    \* useSimulationTime: simulationDate
  warnings,          \* bodies console.warn was called for
  crashed,           \* a frame callback threw
  cb,                \* index in RenderOrder of the next render callback, 0 between frames
  delta,             \* frame time of the frame being rendered
  frameCalls,        \* calls made in the current frame, in order
  frames,            \* frames rendered
  history,           \* per rendered frame: its frame time and whether it was paused
  events,            \* UI events handled
  planets,           \* per planet: the mesh (position, rotation, userData)
  planetPosition,    \* per planet: the planetPosition vector shared with its moons
  moons,             \* per moon: orbitTime, the Math.random() draw, the mesh
  asteroids,         \* AsteroidBelt: orbitalData and instance positions
  kuiper,            \* KuiperBelt: orbitalData and instance positions
  showOrbits,        \* TheExperience: showOrbits
  showStars,         \* TheExperience: showStars
  showHelp,          \* TheExperience: showHelp
  isFlyMode,         \* TheExperience: isFlyMode
  selectedBody,      \* useCelestialSelection: the name of selectedBody, "null" for none
  isFollowing,       \* useCelestialSelection: isFollowing
  call,              \* a function under test: its name and arguments
  ret,               \* its result
  local              \* its local variables while it runs

\* the view and selection state, which no frame callback writes
uiVars == <<showOrbits, showStars, showHelp, isFlyMode, selectedBody, isFollowing>>

sceneVars == <<isPaused, currentSpeedIndex, simulationSpeed, warnings, crashed,
               cb, delta, frameCalls, frames, history, events, planets,
               planetPosition, moons, asteroids, kuiper, uiVars>>

\* refs of TheExperience and useCelestialSelection at setup
UiInit ==
  /\ showOrbits = TRUE
  /\ showStars = TRUE
  /\ showHelp = FALSE
  /\ isFlyMode = FALSE
  /\ selectedBody = "null"
  /\ isFollowing = FALSE

callVars == <<call, ret, local>>

vars == <<sceneVars, simulationDate, callVars>>

\* no function under test
NoCall == [op |-> "none"]

\* useSimulationTime: daysSinceEpoch and julianDate (computed)
daysSinceEpoch == daysSinceJ2000(simulationDate)

julianDate == dateToJulianDate(simulationDate)

\* the callbacks of the moons registered before those of their planets
RenderOrderMoonsFirst ==
  <<[kind |-> "moon",   name |-> "Moon"],
    [kind |-> "planet", name |-> "Earth"],
    [kind |-> "moon",   name |-> "Phaeton"],
    [kind |-> "planet", name |-> "Vulcan"],
    [kind |-> "asteroids", name |-> "AsteroidBelt"],
    [kind |-> "kuiper", name |-> "KuiperBelt"]>>

\* the order in which the components register their onBeforeRender
\* callbacks: each planet, then its moons, then the belts
RenderOrder ==
  <<[kind |-> "planet", name |-> "Earth"],
    [kind |-> "moon",   name |-> "Moon"],
    [kind |-> "planet", name |-> "Vulcan"],
    [kind |-> "moon",   name |-> "Phaeton"],
    [kind |-> "asteroids", name |-> "AsteroidBelt"],
    [kind |-> "kuiper", name |-> "KuiperBelt"]>>

\* an entry of frameCalls
Called(fn, who, x, y) == [fn |-> fn, who |-> who, x |-> x, y |-> y]

\* AsteroidBelt watchEffect: an asteroid in the middle of the belt (radius
\* 145, so speed 0.15), its first position with the vertical spread added
NewAsteroid(angle) ==
  LET orbit == [angle |-> angle, radius |-> 145 * Scale, speed |-> 150000,
                inclination |-> 100000, eccentricity |-> 100000,
                periapsisArg |-> Pi]
      flat  == AsteroidPosition(orbit)
  IN  [orbit |-> orbit,
       position |-> Vector3(flat.x, flat.y + 600000, flat.z)]

\* KuiperBelt watchEffect: an object at the inner edge (radius 650, so
\* speed 0.01), its first position with the vertical spread added
NewKuiperObject(angle) ==
  LET data == [angle |-> angle, radius |-> 650 * Scale, speed |-> 10000,
               inclination |-> 100000]
      flat == KuiperPosition(data)
  IN  [data |-> data,
       position |-> Vector3(flat.x, flat.y + 600000, flat.z)]

\* the scene after mount, before the first frame
SceneInit ==
  /\ isPaused = FALSE
  /\ currentSpeedIndex = 0
  /\ simulationSpeed = speedMultipliers[1]
  /\ simulationDate \in NowSet
  /\ warnings = {p \in Planets : calculateMeanAnomaly(p, daysSinceEpoch).warned}
  /\ crashed = (\E p \in Planets : calculateMeanAnomaly(p, daysSinceEpoch).thrown)
  /\ cb = 0
  /\ delta = 0
  /\ frameCalls = <<>>
  /\ frames = 0
  /\ history = <<>>
  /\ events = 0
  /\ planets = [p \in Planets |->
                  [position |-> Vector3(PlanetProps[p].distance, 0, 0),
                   rotationX |-> 0, rotationY |-> 0, userData |-> ""]]
  /\ planetPosition = [p \in Planets |-> Vector3(PlanetProps[p].distance, 0, 0)]
  /\ moons \in [Moons -> {[orbitTime |-> 0, seed |-> sd,
                           position |-> Vector3(0, 0, 0), rotationY |-> 0,
                           userData |-> ""] : sd \in AngleSeeds}]
  /\ asteroids \in [1..BeltCount -> {NewAsteroid(a) : a \in {Pi \div 3}}]
  /\ kuiper \in [1..BeltCount -> {NewKuiperObject(a) : a \in {Pi \div 3}}]
  /\ UiInit

Init ==
  /\ SceneInit
  /\ call = NoCall
  /\ ret = 0
  /\ local = 0

\* ------------------------------------------------------------------------
\* UI events (TheExperience), handled between frames
\* ------------------------------------------------------------------------

Idle == cb = 0 /\ ~crashed

UiEvent == Idle /\ events < MaxEvents /\ events' = events + 1

\* the handlers of TheExperience and useSimulationTime: what each assigns

\* togglePause that pauses but never resumes
togglePauseSetOnly == isPaused' = TRUE

\* togglePause: isPaused.value = !isPaused.value
togglePause == isPaused' = ~isPaused

\* cycleSpeed that stops at the last multiplier
cycleSpeedNoWrap ==
  /\ currentSpeedIndex' =
       IF currentSpeedIndex + 1 < Len(speedMultipliers)
       THEN currentSpeedIndex + 1 ELSE currentSpeedIndex
  /\ simulationSpeed' = speedMultipliers[currentSpeedIndex' + 1]

\* cycleSpeed: the next index modulo the length, and its multiplier
cycleSpeed ==
  /\ currentSpeedIndex' = (currentSpeedIndex + 1) % Len(speedMultipliers)
  /\ simulationSpeed' = speedMultipliers[currentSpeedIndex' + 1]

\* resetToNow: simulationDate.value = new Date()
resetToNow == \E now \in NowSet : simulationDate' = now

\* jumpToEpoch: simulationDate.value = julianDateToDate(J2000_EPOCH)
jumpToEpoch == simulationDate' = EpochDate

\* togglePause (button or Space key)
TogglePause ==
  /\ UiEvent
  /\ togglePause
  /\ UNCHANGED <<currentSpeedIndex, simulationSpeed, simulationDate, warnings,
                 crashed, cb, delta, frameCalls, frames, history, planets,
                 planetPosition, moons, asteroids, kuiper, uiVars, callVars>>

\* cycleSpeed that also puts the date back to the epoch
CycleSpeedResetsDate ==
  /\ UiEvent
  /\ cycleSpeed
  /\ jumpToEpoch
  /\ UNCHANGED <<isPaused, warnings, crashed, cb, delta,
                 frameCalls, frames, history, planets, planetPosition, moons, asteroids,
                 kuiper, uiVars, callVars>>

\* cycleSpeed
CycleSpeed ==
  /\ UiEvent
  /\ cycleSpeed
  /\ UNCHANGED <<isPaused, simulationDate, warnings, crashed, cb, delta,
                 frameCalls, frames, history, planets, planetPosition, moons, asteroids,
                 kuiper, uiVars, callVars>>

\* resetToNow (button)
ResetToNow ==
  /\ UiEvent
  /\ resetToNow
  /\ UNCHANGED <<isPaused, currentSpeedIndex, simulationSpeed, warnings,
                 crashed, cb, delta, frameCalls, frames, history, planets,
                 planetPosition, moons, asteroids, kuiper, uiVars, callVars>>

\* jumpToEpoch that also rewinds every moon to the start of its orbit
JumpToEpochRewindsMoons ==
  /\ UiEvent
  /\ jumpToEpoch
  /\ moons' = [m \in DOMAIN moons |-> [moons[m] EXCEPT !.orbitTime = 0]]
  /\ UNCHANGED <<isPaused, currentSpeedIndex, simulationSpeed, warnings,
                 crashed, cb, delta, frameCalls, frames, history, planets,
                 planetPosition, asteroids, kuiper, uiVars, callVars>>

\* jumpToEpoch (button)
JumpToEpoch ==
  /\ UiEvent
  /\ jumpToEpoch
  /\ UNCHANGED <<isPaused, currentSpeedIndex, simulationSpeed, warnings,
                 crashed, cb, delta, frameCalls, frames, history, planets,
                 planetPosition, moons, asteroids, kuiper, uiVars, callVars>>

\* ------------------------------------------------------------------------
\* A frame: animate, then the onBeforeRender callbacks in RenderOrder
\* ------------------------------------------------------------------------

\* the pause check left out of animate
AnimateAdvancesNoPauseCheck(paused) == TRUE

\* animate: whether advanceTime is called
AnimateAdvances(paused) == ~paused

\* animate (TheExperience).  The camera rig and the follow target it updates
\* are not part of the state; the calls are recorded.
Animate ==
  /\ Idle
  /\ frames < MaxFrames
  /\ \E d \in FrameDeltas :
       /\ delta' = d
       /\ IF AnimateAdvances(isPaused)
          THEN /\ simulationDate' = AdvancedDate(simulationDate, d, simulationSpeed)
               /\ frameCalls' = <<Called("advanceTime", "", d, simulationSpeed),
                                  Called("updateCamera", "", d, 0)>>
          ELSE /\ simulationDate' = simulationDate
               /\ frameCalls' = <<Called("updateCamera", "", d, 0)>>
  /\ cb' = 1
  /\ UNCHANGED <<isPaused, currentSpeedIndex, simulationSpeed, warnings,
                 crashed, frames, history, events, planets, planetPosition,
                 moons, asteroids, kuiper, uiVars, callVars>>

\* the callback to run now
Current == RenderOrder[cb]

\* after a callback: the next one, or the end of the frame
CallbackDone ==
  /\ cb' = IF cb = Len(RenderOrder) THEN 0 ELSE cb + 1
  /\ frames' = IF cb = Len(RenderOrder) THEN frames + 1 ELSE frames
  /\ history' = IF cb = Len(RenderOrder)
                THEN Append(history, [delta |-> delta, paused |-> isPaused])
                ELSE history

\* the pause check left out of a body callback
BodyAdvancesNoPauseCheck(paused) == TRUE

\* Planet, Moon and the belts: whether the callback moves its body
BodyAdvances(paused) == ~paused

\* Planet: onBeforeRender
RenderPlanet ==
  /\ cb > 0 /\ ~crashed /\ Current.kind = "planet"
  /\ LET p        == Current.name
         anomaly  == calculateMeanAnomaly(p, daysSinceEpoch)
         position == calculateOrbitalPosition(
                       PlanetElements(p, daysSinceEpoch), 0, Scale)
         tilted   == [planets[p] EXCEPT !.userData = "planet",
                                        !.rotationX = axialTiltRadians(p)]
     IN  IF ~BodyAdvances(isPaused)
         THEN /\ planets' = [planets EXCEPT ![p] = tilted]
              /\ UNCHANGED <<planetPosition, warnings, crashed, frameCalls>>
         ELSE IF anomaly.thrown
         THEN /\ crashed' = TRUE
              /\ planets' = [planets EXCEPT ![p] = tilted]
              /\ UNCHANGED <<planetPosition, warnings, frameCalls>>
         ELSE /\ planets' = [planets EXCEPT ![p] =
                   [tilted EXCEPT
                      !.position = position,
                      !.rotationY = @ + FMul(FMul(
                         OrDefault(PlanetProps[p], "rotationSpeed", 500000),
                         delta), simulationSpeed)]]
              /\ planetPosition' = [planetPosition EXCEPT ![p] = position]
              /\ warnings' = IF anomaly.warned THEN warnings \cup {p} ELSE warnings
              /\ frameCalls' = Append(frameCalls,
                                 Called("calculateOrbitalPosition", p, 0, Scale))
              /\ UNCHANGED crashed
  /\ CallbackDone
  /\ UNCHANGED <<isPaused, currentSpeedIndex, simulationSpeed, simulationDate,
                 delta, events, moons, asteroids, kuiper, uiVars, callVars>>

\* Moon: onBeforeRender
RenderMoon ==
  /\ cb > 0 /\ ~crashed /\ Current.kind = "moon"
  /\ LET m         == Current.name
         p         == ParentOf(m)
         orbitTime == moons[m].orbitTime
                        + FMul(FMul(MoonProps[m].speed, delta), simulationSpeed)
         localPosition == calculateOrbitalPosition(
                            MoonElements(m, moons[m].seed), orbitTime, Scale)
     IN  IF ~BodyAdvances(isPaused)
         THEN /\ moons' = [moons EXCEPT ![m].userData = "moon"]
              /\ UNCHANGED frameCalls
         ELSE /\ moons' = [moons EXCEPT ![m] =
                   [@ EXCEPT
                      !.userData = "moon",
                      !.orbitTime = orbitTime,
                      !.position = MoonWorldPosition(planetPosition[p],
                                     localPosition, axialTiltRadians(p)),
                      !.rotationY = @ + FMul(FMul(
                         OrDefault(MoonProps[m], "rotationSpeed", 800000),
                         delta), simulationSpeed)]]
              /\ frameCalls' = Append(frameCalls,
                                 Called("calculateOrbitalPosition", m, orbitTime, Scale))
  /\ CallbackDone
  /\ UNCHANGED <<isPaused, currentSpeedIndex, simulationSpeed, simulationDate,
                 warnings, crashed, delta, events, planets, planetPosition,
                 asteroids, kuiper, uiVars, callVars>>

\* AsteroidBelt: one asteroid of the loop of onBeforeRender
MovedAsteroid(a) ==
  LET orbit == [a.orbit EXCEPT
                  !.angle = @ + FMul(FMul(a.orbit.speed, delta), simulationSpeed)]
  IN  [orbit |-> orbit, position |-> AsteroidPosition(orbit)]

\* AsteroidBelt: onBeforeRender
RenderAsteroids ==
  /\ cb > 0 /\ ~crashed /\ Current.kind = "asteroids"
  /\ asteroids' = IF BodyAdvances(isPaused) /\ Len(asteroids) > 0
                  THEN [i \in DOMAIN asteroids |-> MovedAsteroid(asteroids[i])]
                  ELSE asteroids
  /\ CallbackDone
  /\ UNCHANGED <<isPaused, currentSpeedIndex, simulationSpeed, simulationDate,
                 warnings, crashed, delta, frameCalls, events, planets,
                 planetPosition, moons, kuiper, uiVars, callVars>>

\* KuiperBelt: one object of the loop of onBeforeRender
MovedKuiperObject(k) ==
  LET data == [k.data EXCEPT
                 !.angle = @ + FMul(FMul(k.data.speed, delta), simulationSpeed)]
  IN  [data |-> data, position |-> KuiperPosition(data)]

\* KuiperBelt: onBeforeRender
RenderKuiper ==
  /\ cb > 0 /\ ~crashed /\ Current.kind = "kuiper"
  /\ kuiper' = IF BodyAdvances(isPaused) /\ Len(kuiper) > 0
               THEN [i \in DOMAIN kuiper |-> MovedKuiperObject(kuiper[i])]
               ELSE kuiper
  /\ CallbackDone
  /\ UNCHANGED <<isPaused, currentSpeedIndex, simulationSpeed, simulationDate,
                 warnings, crashed, delta, frameCalls, events, planets,
                 planetPosition, moons, asteroids, uiVars, callVars>>

Next ==
  \/ TogglePause
  \/ CycleSpeed
  \/ ResetToNow
  \/ JumpToEpoch
  \/ Animate
  \/ RenderPlanet
  \/ RenderMoon
  \/ RenderAsteroids
  \/ RenderKuiper

Spec == Init /\ [][Next]_vars

\* ------------------------------------------------------------------------
\* Properties of the frame loop
\* ------------------------------------------------------------------------

\* a render callback runs in this step
RenderStep == cb > 0 /\ cb' # cb

\* animate runs in this step
AnimateStep == cb = 0 /\ cb' = 1

\* what the pause gates: positions, spin angles, orbit times, belt angles
BodyState ==
  <<[p \in Planets |-> <<planets[p].position, planets[p].rotationY>>],
    planetPosition,
    [m \in Moons |-> <<moons[m].orbitTime, moons[m].position, moons[m].rotationY>>],
    asteroids, kuiper>>

\* whether the current frame called fn for who
HasCall(fn, who) ==
  \E i \in DOMAIN frameCalls : frameCalls[i].fn = fn /\ frameCalls[i].who = who

\* C1: while isPaused, a body callback run with any frame time leaves every
\* planet's position and spin angle, every moon's orbitTime, position and
\* spin angle and every belt object's angle and position unchanged
PausedBodiesStill == [][(isPaused /\ RenderStep) => UNCHANGED BodyState]_vars

\* C1 witness: the callbacks of a second paused frame have run, its frame
\* time different from the paused frame before it
PausedTwiceWitness ==
  /\ isPaused /\ cb = Len(RenderOrder)
  /\ Len(history) >= 1
  /\ history[Len(history)].paused
  /\ history[Len(history)].delta # delta

\* C2: animate calls advanceTime exactly when isPaused is false and calls
\* updateCamera in every frame; while paused no step of the frame changes
\* the simulation date
AdvanceIffRunning ==
  [][/\ AnimateStep =>
          /\ (\E i \in DOMAIN frameCalls' : frameCalls'[i].fn = "advanceTime")
               <=> ~isPaused
          /\ \E i \in DOMAIN frameCalls' : frameCalls'[i].fn = "updateCamera"
     /\ (isPaused /\ (AnimateStep \/ RenderStep)) =>
          daysSinceJ2000(simulationDate') = daysSinceEpoch]_vars

\* C2 witness: a second paused frame in a row, at a speed other than 1x
PausedRunWitness ==
  /\ isPaused /\ cb > 0
  /\ Len(history) >= 1 /\ history[Len(history)].paused
  /\ simulationSpeed # Scale
  /\ HasCall("updateCamera", "")

\* the planets whose name has no ephemeris entry
UnlistedPlanets == Planets \ DOMAIN PLANET_EPHEMERIS

\* the position a planet takes at mean anomaly 0
ParkedPosition(p) ==
  calculateOrbitalPosition(
    [PlanetElements(p, daysSinceEpoch) EXCEPT !.meanAnomalyAtEpoch = 0], 0, Scale)

\* The recovery of C6 in the scene, for a planet whose name is neither in
\* the table nor the name of an inherited member: calculateMeanAnomaly
\* returns 0 and warns without throwing; the planet of that name is
\* positioned at mean anomaly 0 and no callback of the frame fails (a
\* failure would set crashed and stop the callbacks)
MissingEphemerisRecovered ==
  \A p \in UnlistedPlanets :
    /\ calculateMeanAnomaly(p, daysSinceEpoch)
         = [value |-> 0, warned |-> TRUE, thrown |-> FALSE]
    /\ ~crashed
    /\ p \in warnings
    /\ HasCall("calculateOrbitalPosition", p) =>
         planets[p].position = ParkedPosition(p)

\* its witness: a frame is past the callback of an unlisted planet, which
\* positioned it
MissingEphemerisWitness ==
  \E p \in UnlistedPlanets :
    /\ HasCall("calculateOrbitalPosition", p)
    /\ cb > 0 /\ RenderOrder[cb].kind = "moon"
    /\ planets[p].userData = "planet"

\* a vector rotated about the X axis by the angle tilt
TiltRotate(v, tilt) ==
  Vector3(v.x,
          FMul(v.y, Cos(tilt)) - FMul(v.z, Sin(tilt)),
          FMul(v.y, Sin(tilt)) + FMul(v.z, Cos(tilt)))

VecAdd(a, b) == Vector3(a.x + b.x, a.y + b.y, a.z + b.z)

\* the moon's orbital offset at its orbitTime
MoonOffset(m) ==
  calculateOrbitalPosition(MoonElements(m, moons[m].seed), moons[m].orbitTime, Scale)

\* C7: at the end of a frame that updated a moon, the moon is at its
\* planet's position plus its orbital offset rotated by the planet's axial
\* tilt; with no tilt, planet (50,0,0) and offset (5,0,0) give (55,0,0)
MoonComposition ==
  /\ \A m \in Moons :
       (cb = 0 /\ HasCall("calculateOrbitalPosition", m)) =>
         moons[m].position =
           VecAdd(planets[ParentOf(m)].position,
                  TiltRotate(MoonOffset(m), axialTiltRadians(ParentOf(m))))
  /\ MoonWorldPosition(Vector3(50 * Scale, 0, 0), Vector3(5 * Scale, 0, 0), 0)
       = Vector3(55 * Scale, 0, 0)

\* C7 witness: a frame ended in which a tilted planet moved and its moon,
\* off the X axis, was updated
MoonCompositionWitness ==
  \E m \in Moons :
    /\ cb = 0 /\ HasCall("calculateOrbitalPosition", m)
    /\ axialTiltRadians(ParentOf(m)) # 0
    /\ MoonOffset(m).z # 0
    /\ planets[ParentOf(m)].position # Vector3(PlanetProps[ParentOf(m)].distance, 0, 0)

\* ------------------------------------------------------------------------
\* The time service called directly (useSimulationTime)
\* ------------------------------------------------------------------------

\* calls of the time service in one run
MaxClockCalls == 3

\* deltaSeconds of advanceTime: 1 s, a frame time, a step back, nothing
ClockDeltas == {Scale, 16667, -250000, 0}

\* speedMultiplier of advanceTime
ClockSpeeds == {1 * Scale, 4 * Scale, 10 * Scale}

\* dates given to setDate: an Invalid Date, the last day of the Date range,
\* a time before 1970
DateInputs == {NaNDays, Days(MaxDateDays - 1, MS_PER_DAY - 1), Days(-5, 100)}

\* the scene is not mounted
SceneUnused ==
  /\ isPaused = FALSE
  /\ currentSpeedIndex = 0
  /\ simulationSpeed = speedMultipliers[1]
  /\ warnings = {}
  /\ crashed = FALSE
  /\ cb = 0
  /\ delta = 0
  /\ frameCalls = <<>>
  /\ frames = 0
  /\ history = <<>>
  /\ events = 0
  /\ planets = <<>>
  /\ planetPosition = <<>>
  /\ moons = <<>>
  /\ asteroids = <<>>
  /\ kuiper = <<>>
  /\ UiInit

\* an exact time of day + tenths/(10 MS_PER_DAY) days
Exact(day, tenths) ==
  [day |-> day + (tenths \div (10 * MS_PER_DAY)), tenths |-> tenths % (10 * MS_PER_DAY)]

\* deltaSeconds * speedMultiplier days as an exact time
RequestedAdvance(deltaSeconds, speedMultiplier) ==
  LET product == FMul(deltaSeconds, speedMultiplier)
  IN  Exact(product \div Scale, (product % Scale) * 864)

\* a record of the last call: its arguments, the date before it, and for a
\* run of advanceTime calls the date the run started from, the number of
\* calls and the sum of the advances requested
ClockCall(op, d, s, before, origin, n, sum) ==
  [op |-> op, deltaSeconds |-> d, speedMultiplier |-> s, before |-> before,
   origin |-> origin, n |-> n, sum |-> sum]

ClockInit ==
  /\ SceneUnused
  /\ simulationDate \in NowSet
  /\ call = ClockCall("useSimulationTime", 0, 0, simulationDate, simulationDate,
                      0, Exact(0, 0))
  /\ ret = 0
  /\ local = 0

ClockCallAllowed == local < MaxClockCalls /\ local' = local + 1

\* advanceTime(deltaSeconds, speedMultiplier)
AdvanceTime ==
  /\ ClockCallAllowed
  /\ \E d \in ClockDeltas, s \in ClockSpeeds :
       LET adv == RequestedAdvance(d, s)
       IN  /\ simulationDate' = AdvancedDate(simulationDate, d, s)
           /\ call' = ClockCall("advanceTime", d, s, simulationDate, call.origin,
                                call.n + 1,
                                Exact(call.sum.day + adv.day,
                                      call.sum.tenths + adv.tenths))
  /\ UNCHANGED <<sceneVars, ret>>

\* setDate(date)
SetDate ==
  /\ ClockCallAllowed
  /\ \E date \in DateInputs :
       /\ simulationDate' = NewDate(date)
       /\ call' = ClockCall("setDate", 0, 0, simulationDate, simulationDate',
                            0, Exact(0, 0))
  /\ UNCHANGED <<sceneVars, ret>>

\* resetToNow()
ResetToNowCall ==
  /\ ClockCallAllowed
  /\ \E now \in NowSet :
       /\ simulationDate' = now
       /\ call' = ClockCall("resetToNow", 0, 0, simulationDate, simulationDate',
                            0, Exact(0, 0))
  /\ UNCHANGED <<sceneVars, ret>>

\* jumpToEpoch()
JumpToEpochCall ==
  /\ ClockCallAllowed
  /\ simulationDate' = EpochDate
  /\ call' = ClockCall("jumpToEpoch", 0, 0, simulationDate, simulationDate',
                       0, Exact(0, 0))
  /\ UNCHANGED <<sceneVars, ret>>

ClockNext ==
  \/ AdvanceTime
  \/ SetDate
  \/ ResetToNowCall
  \/ JumpToEpochCall

SpecClock == ClockInit /\ [][ClockNext]_vars

\* the exact time a date plus an exact advance
ExactSum(date, adv) == Exact(date.day + adv.day, 10 * date.ms + adv.tenths)

\* an exact time beyond the Date range of +-8.64e15 ms
OutOfDateRange(x) ==
  x.day > MaxDateDays \/ (x.day = MaxDateDays /\ x.tenths > 0) \/ x.day < -MaxDateDays

\* date - x in tenths of a millisecond, for times less than two days apart
TenthsApart(date, x) ==
  (date.day - x.day) * (10 * MS_PER_DAY) + (10 * date.ms - x.tenths)

\* C3: advanceTime changes daysSinceEpoch by exactly deltaSeconds *
\* speedMultiplier days, and a run of advanceTime calls by the sum of their
\* products
AdvanceExact ==
  call.op = "advanceTime" =>
    LET target == ExactSum(call.before, RequestedAdvance(call.deltaSeconds, call.speedMultiplier))
        total  == ExactSum(call.origin, call.sum)
    IN  /\ ~simulationDate.nan
        /\ simulationDate.day = target.day /\ 10 * simulationDate.ms = target.tenths
        /\ simulationDate.day = total.day /\ 10 * simulationDate.ms = total.tenths

\* C3 as amended: advanceTime sets the date to the old time plus
\* deltaSeconds * speedMultiplier days with the fraction of a millisecond
\* dropped toward zero: daysSinceEpoch changes by the product to within one
\* millisecond, and exactly when the product is a whole number of
\* milliseconds (advanceTime(1.0, 1) adds exactly 1.0); a run of n calls
\* changes it by the sum of the products to within n milliseconds.  An
\* Invalid Date stays invalid and a time beyond +-8.64e15 ms makes the date
\* invalid.
AdvanceWithinMillisecond ==
  call.op = "advanceTime" =>
    LET target == ExactSum(call.before, RequestedAdvance(call.deltaSeconds, call.speedMultiplier))
        total  == ExactSum(call.origin, call.sum)
    IN  IF call.before.nan \/ OutOfDateRange(target) THEN simulationDate.nan
        ELSE /\ ~simulationDate.nan
             /\ Abs(simulationDate.day - target.day) <= 1
             /\ Abs(TenthsApart(simulationDate, target)) < 10
             /\ target.tenths % 10 = 0 => TenthsApart(simulationDate, target) = 0
             /\ target.day >= 0 => TenthsApart(simulationDate, target) <= 0
             /\ target.day < 0 => TenthsApart(simulationDate, target) >= 0
             /\ (call.deltaSeconds = Scale /\ call.speedMultiplier = Scale) =>
                  daysSinceJ2000(simulationDate)
                    = AddDays(daysSinceJ2000(call.before), Days(1, 0))
             /\ Abs(simulationDate.day - total.day) <= 1
             /\ Abs(TenthsApart(simulationDate, total)) < 10 * call.n

\* C3 witness: the second advanceTime of a run dropped a fraction of a
\* millisecond
AdvanceTruncatedWitness ==
  /\ call.op = "advanceTime" /\ call.n >= 2
  /\ ~simulationDate.nan
  /\ ExactSum(call.before, RequestedAdvance(call.deltaSeconds, call.speedMultiplier)).tenths % 10 # 0
  /\ call.speedMultiplier # Scale

\* C18: in every clock state julianDate is the time value of the date in
\* days plus 2440587.5 and daysSinceEpoch is julianDate - 2451545.0 (the
\* half day written out with its carry into the day count); of an Invalid
\* Date both are NaN
ClockIdentities ==
  IF simulationDate.nan THEN julianDate.nan /\ daysSinceEpoch.nan
  ELSE LET ms    == simulationDate.ms + MS_PER_DAY \div 2
           carry == IF ms >= MS_PER_DAY THEN 1 ELSE 0
       IN  /\ ~julianDate.nan /\ ~daysSinceEpoch.nan
           /\ julianDate.day = simulationDate.day + 2440587 + carry
           /\ julianDate.ms = ms - carry * MS_PER_DAY
           /\ daysSinceEpoch.day = julianDate.day - 2451545
           /\ daysSinceEpoch.ms = julianDate.ms

\* C18 witness: advanceTime left a date in the second half of its day,
\* before the epoch
ClockIdentitiesWitness ==
  /\ call.op = "advanceTime"
  /\ ~simulationDate.nan
  /\ simulationDate.ms >= MS_PER_DAY \div 2
  /\ daysSinceEpoch.day < 0

\* C19: a run of advanceTime calls started on a valid date leaves a valid
\* date with a finite daysSinceEpoch, and a call with a non-zero
\* deltaSeconds * speedMultiplier moves the date
DateUnbounded ==
  (call.op = "advanceTime" /\ ~call.origin.nan) =>
    /\ ~simulationDate.nan
    /\ ~daysSinceEpoch.nan
    /\ FMul(call.deltaSeconds, call.speedMultiplier) # 0 =>
         simulationDate # call.before

\* C4: after jumpToEpoch, from any clock state, daysSinceEpoch is 0 and
\* julianDate is 2451545.0
EpochAfterJump ==
  call.op = "jumpToEpoch" =>
    /\ daysSinceEpoch = [nan |-> FALSE, day |-> 0, ms |-> 0]
    /\ julianDate = [nan |-> FALSE, day |-> 2451545, ms |-> 0]

\* C4 witness: jumpToEpoch was called on a date advanced off the epoch, and
\* on an Invalid Date
JumpWitness ==
  /\ call.op = "jumpToEpoch"
  /\ call.before # simulationDate
  /\ local = MaxClockCalls

\* ------------------------------------------------------------------------
\* calculateMeanAnomaly called directly
\* ------------------------------------------------------------------------

\* day counts given to calculateMeanAnomaly: the epoch, a day either side,
\* the present, the same before the epoch, a Julian year and a quarter day,
\* a Julian century back, and a million days either side
DayInputs ==
  {Days(0, 0), Days(1, 0), Days(-1, 0), Days(9805, 37000123), Days(-9806, 123),
   Days(365, MS_PER_DAY \div 4), Days(-36525, 0), Days(100000, MS_PER_DAY \div 2),
   Days(1000000, 0), Days(-1000000, 0)}

AnomalyInit ==
  /\ SceneUnused
  /\ simulationDate = EpochDate
  /\ \E bodyName \in DOMAIN PLANET_EPHEMERIS, d \in DayInputs :
       call = [op |-> "calculateMeanAnomaly", bodyName |-> bodyName,
               daysSinceEpoch |-> d]
  /\ ret = 0
  /\ local = "called"

\* the call returns
MeanAnomalyReturns ==
  /\ local = "called"
  /\ ret' = calculateMeanAnomaly(call.bodyName, call.daysSinceEpoch)
  /\ local' = "returned"
  /\ UNCHANGED <<sceneVars, simulationDate, call>>

AnomalyNext == MeanAnomalyReturns

SpecAnomaly == AnomalyInit /\ [][AnomalyNext]_vars

\* C5: for a body of the table and a day count d of either sign the value
\* returned lies in [0, 360) and differs from M0 + n*d by a whole number of
\* turns; at d = 0 it is M0 (357.529 for Earth), a day later (M0 + n) mod
\* 360 and a day earlier (M0 - n) mod 360
MeanAnomalyNormalized ==
  local = "returned" =>
    LET e == PLANET_EPHEMERIS[call.bodyName]
        d == call.daysSinceEpoch
        motion == MotionSince(e.meanMotion, d)
    IN  /\ ~ret.thrown /\ ~ret.warned
        /\ 0 <= ret.value /\ ret.value < 360 * Scale
        /\ (ret.value - (e.meanAnomalyAtEpoch + motion.rem)) % (360 * Scale) = 0
        /\ d = Days(0, 0) => ret.value = e.meanAnomalyAtEpoch
        /\ (d = Days(0, 0) /\ call.bodyName = "Earth") => ret.value = 357529000
        /\ d = Days(1, 0) =>
             ret.value = (e.meanAnomalyAtEpoch + e.meanMotion) % (360 * Scale)
        /\ d = Days(-1, 0) =>
             ret.value = (e.meanAnomalyAtEpoch - e.meanMotion) % (360 * Scale)

\* C5 witness: an anomaly returned for a time before the epoch at which
\* M0 + n*d is negative
MeanAnomalyWitness ==
  /\ local = "returned"
  /\ call.daysSinceEpoch.day < 0
  /\ MotionSince(PLANET_EPHEMERIS[call.bodyName].meanMotion, call.daysSinceEpoch).turns < -1
  /\ ret.value > 0

\* ------------------------------------------------------------------------
\* solveKeplerEquation called directly, one loop iteration per step
\* ------------------------------------------------------------------------

\* mean anomalies k * 2 pi / AnomalySteps, k < AnomalySteps, and
\* eccentricities k * 0.9 / EccentricitySteps, k <= EccentricitySteps, given
\* with the default tolerance and maxIterations
AnomalySteps == 12

EccentricitySteps == 6

AnomalyGrid == {(k * TwoPi) \div AnomalySteps : k \in 0 .. (AnomalySteps - 1)}

EccentricityGrid ==
  {(k * 900000) \div EccentricitySteps : k \in 0 .. EccentricitySteps}

\* other arguments: anomalies outside [0, 2 pi), a parabolic orbit, a
\* tolerance nothing meets, a loose one, few iterations and none
AnomalyInputs == {0, 1 * Scale, 3 * Scale, -2 * Scale, 100 * Scale, TwoPi}

EccentricityInputs == {0, 500000, 900000, 1 * Scale}

ToleranceInputs == {DefaultTolerance, 1000, 0}

MaxIterationsInputs == {0, 1, 3, DefaultMaxIterations}

KeplerInputs ==
  (AnomalyGrid \X EccentricityGrid \X {DefaultTolerance} \X {DefaultMaxIterations})
    \cup (AnomalyInputs \X EccentricityInputs \X ToleranceInputs \X MaxIterationsInputs)

\* the locals of solveKeplerEquation at the head of the loop; steps counts
\* the iterations run and met those whose |dE| was below the tolerance
KeplerInit ==
  /\ SceneUnused
  /\ simulationDate = EpochDate
  /\ \E in \in KeplerInputs :
       LET M == NormalizeAnomaly(in[1])
       IN  /\ call = [op |-> "solveKeplerEquation", meanAnomaly |-> in[1],
                      eccentricity |-> in[2], tolerance |-> in[3],
                      maxIterations |-> in[4]]
           /\ local = [pc |-> "loop", M |-> M, E |-> InitialGuess(M, in[2]),
                       i |-> 0, dE |-> 0, steps |-> 0, met |-> 0]
  /\ ret = 0

\* one iteration of the for loop
NewtonStep ==
  /\ local.pc = "loop"
  /\ LoopContinues(local.i, call.maxIterations)
  /\ LET dE == NewtonDelta(local.E, local.M, call.eccentricity)
         E  == NewtonUpdate(local.E, dE)
         small == dE \notin {NaN, PosInf, NegInf} /\ -call.tolerance < dE
                    /\ dE < call.tolerance
         done == Converged(dE, call.tolerance)
     IN  /\ local' = [local EXCEPT !.E = E, !.dE = dE,
                        !.steps = @ + 1,
                        !.met = @ + (IF small THEN 1 ELSE 0),
                        !.i = IF done THEN @ ELSE @ + 1,
                        !.pc = IF done THEN "done" ELSE "loop"]
         /\ ret' = IF done THEN E ELSE ret
  /\ UNCHANGED <<sceneVars, simulationDate, call>>

\* the loop ends without convergence: return E
LoopExit ==
  /\ local.pc = "loop"
  /\ ~LoopContinues(local.i, call.maxIterations)
  /\ local' = [local EXCEPT !.pc = "done"]
  /\ ret' = local.E
  /\ UNCHANGED <<sceneVars, simulationDate, call>>

KeplerNext ==
  \/ NewtonStep
  \/ LoopExit

SpecKepler == KeplerInit /\ [][KeplerNext]_vars

\* C8: solveKeplerEquation runs at most maxIterations iterations; it
\* returns the estimate right after the first iteration whose |dE| is below
\* the tolerance, and when there is none the estimate after iteration
\* maxIterations
KeplerBounded ==
  /\ local.steps <= call.maxIterations
  /\ local.met <= 1
  /\ local.met = 1 => local.pc = "done" /\ ret = local.E
                        /\ local.dE < call.tolerance /\ -call.tolerance < local.dE
  /\ (local.pc = "done" /\ local.met = 0) =>
       local.steps = call.maxIterations /\ ret = local.E
  /\ local.pc = "done" =>
       ret = solveKeplerEquation(call.meanAnomaly, call.eccentricity,
                                 call.tolerance, call.maxIterations)

\* C8 witness: a call returned after maxIterations iterations none of which
\* met the tolerance
KeplerExhaustedWitness ==
  /\ local.pc = "done" /\ local.met = 0
  /\ local.steps = call.maxIterations /\ call.maxIterations = 3
  /\ call.tolerance = DefaultTolerance

\* (x mod 2 pi) as the representative nearest zero
NearestTurn(x) ==
  LET r == x % TwoPi IN IF 2 * r > TwoPi THEN r - TwoPi ELSE r

\* The default tolerance is one unit of the fixed-point resolution, so an
\* iteration that meets it in double arithmetic may here move E by a unit
\* more; the estimate returned is then the one after maxIterations.

\* C9: with the default tolerance and maxIterations, for e in [0, 0.9] and
\* M in [0, 2 pi) the value E returned satisfies
\* |(E - e sin E) - M (mod 2 pi)| < 1e-5
KeplerRoundTrip ==
  (/\ local.pc = "done"
   /\ call.tolerance = DefaultTolerance
   /\ call.maxIterations = DefaultMaxIterations
   /\ 0 <= call.eccentricity /\ call.eccentricity <= 900000
   /\ 0 <= call.meanAnomaly /\ call.meanAnomaly < TwoPi)
  => /\ ret \notin {NaN, PosInf, NegInf}
     /\ Abs(NearestTurn((ret - FMul(call.eccentricity, Sin(ret))) - call.meanAnomaly)) < 10

\* C9 witness: the solver returned for e = 0.9 and a mean anomaly in the
\* second half of the orbit after more than one iteration
KeplerRoundTripWitness ==
  /\ local.pc = "done"
  /\ call.tolerance = DefaultTolerance
  /\ call.maxIterations = DefaultMaxIterations
  /\ call.eccentricity = 900000
  /\ Pi < call.meanAnomaly /\ call.meanAnomaly < TwoPi
  /\ local.steps > 1

\* ------------------------------------------------------------------------
\* generateEllipsePoints called directly, one loop iteration per step
\* ------------------------------------------------------------------------

\* segment counts 3 .. MaxSegments are given, and the 128 of Planet
MaxSegments == 6

PlanetSegments == 128

\* orbital elements: circular and eccentric, rotated periapsis, with and
\* without the optional inclination and node (angles in radians)
EllipseShapes ==
  {[semiMajorAxis |-> a, eccentricity |-> e, periapsisArgument |-> w] :
     a \in {70 * Scale, 3500000}, e \in {0, 17000, 500000, 900000},
     w \in {0, 1797689, -Pi}}

EllipseElements ==
  EllipseShapes
    \cup {[semiMajorAxis |-> s.semiMajorAxis, eccentricity |-> s.eccentricity,
           periapsisArgument |-> s.periapsisArgument,
           inclination |-> 122173, longitudeOfAscendingNode |-> 1 * Scale] :
            s \in EllipseShapes}

EllipseInit ==
  /\ SceneUnused
  /\ simulationDate = EpochDate
  /\ \/ \E elements \in EllipseElements, segments \in 3 .. MaxSegments :
          call = [op |-> "generateEllipsePoints", elements |-> elements,
                  segments |-> segments]
     \/ call = [op |-> "generateEllipsePoints",
                elements |-> PlanetElements("Earth", Days(0, 0)),
                segments |-> PlanetSegments]
  /\ local = [pc |-> "loop", i |-> 0, points |-> <<>>]
  /\ ret = <<>>

\* one iteration of the for loop: a point is pushed
EllipseStep ==
  /\ local.pc = "loop"
  /\ EllipseLoopContinues(local.i, call.segments)
  /\ local' = [local EXCEPT
                 !.points = Append(@, PointAtTrueAnomaly(call.elements,
                                        SampleAnomaly(local.i, call.segments))),
                 !.i = @ + 1]
  /\ UNCHANGED <<sceneVars, simulationDate, call, ret>>

\* return points
EllipseReturn ==
  /\ local.pc = "loop"
  /\ ~EllipseLoopContinues(local.i, call.segments)
  /\ local' = [local EXCEPT !.pc = "done"]
  /\ ret' = local.points
  /\ UNCHANGED <<sceneVars, simulationDate, call>>

EllipseNext ==
  \/ EllipseStep
  \/ EllipseReturn

SpecEllipse == EllipseInit /\ [][EllipseNext]_vars

\* Points are compared at the fixed-point resolution of 1e-6; the rounding
\* of sin(2 pi) in double arithmetic (2.4e-16) lies below it.

\* C10: for n >= 3 segments generateEllipsePoints returns n + 1 points, in
\* the order of their true anomaly i * 2 pi / n, the last equal to the first
EllipseClosed ==
  local.pc = "done" =>
    /\ Len(ret) = call.segments + 1
    /\ ret[Len(ret)] = ret[1]
    /\ ret[1] = PointAtTrueAnomaly(call.elements, 0)
    /\ \A k \in 1 .. Len(ret) :
         ret[k] = PointAtTrueAnomaly(call.elements,
                    SampleAnomaly(k - 1, call.segments))
    /\ ret = generateEllipsePoints(call.elements, call.segments)

\* C10 witness: an inclined eccentric ellipse with rotated periapsis
\* returned with more than three segments, its second point off the first
EllipseWitness ==
  /\ local.pc = "done"
  /\ call.segments > 3
  /\ call.elements.eccentricity = 900000
  /\ call.elements.periapsisArgument # 0
  /\ "inclination" \in DOMAIN call.elements
  /\ ret[2] # ret[1]
  /\ ret[1].y # 0

\* ------------------------------------------------------------------------
\* calculateOrbitalPosition and generateEllipsePoints called directly
\* ------------------------------------------------------------------------

\* orbital elements given to the position generator: Earth's and a moon's
\* axis and the 100 of the circular scenario; circular to e = 0.9; angles
\* in radians, the inclination and node zero or not
PositionElements ==
  {[semiMajorAxis |-> a, eccentricity |-> e, periapsisArgument |-> w,
    meanAnomalyAtEpoch |-> m, inclination |-> i[1],
    longitudeOfAscendingNode |-> i[2]] :
     a \in {70 * Scale, 100 * Scale, 3500000},
     e \in {0, 17000, 500000, 900000},
     w \in {0, 1797689},
     m \in {0, 1 * Scale, 5258087},
     i \in {<<0, 0>>, <<122173, 1 * Scale>>}}

\* time and speedMultiplier given with them
PositionTimes == {0, 2500000, -1 * Scale}

PositionSpeeds == {1 * Scale, 4 * Scale}

\* segment count of the paths generated for the same elements
PathSegments == 8

PositionInit ==
  /\ SceneUnused
  /\ simulationDate = EpochDate
  /\ \E elements \in PositionElements :
       \/ \E t \in PositionTimes, s \in PositionSpeeds :
            call = [op |-> "calculateOrbitalPosition", elements |-> elements,
                    time |-> t, speedMultiplier |-> s]
       \/ call = [op |-> "generateEllipsePoints", elements |-> elements,
                  time |-> 0, speedMultiplier |-> PathSegments]
  /\ ret = <<>>
  /\ local = "called"

\* calculateOrbitalPosition returns: ret is the one position
PositionReturns ==
  /\ local = "called"
  /\ call.op = "calculateOrbitalPosition"
  /\ ret' = <<calculateOrbitalPosition(call.elements, call.time,
                                       call.speedMultiplier)>>
  /\ local' = "returned"
  /\ UNCHANGED <<sceneVars, simulationDate, call>>

\* generateEllipsePoints returns: ret is the points
PathReturns ==
  /\ local = "called"
  /\ call.op = "generateEllipsePoints"
  /\ ret' = generateEllipsePoints(call.elements, call.speedMultiplier)
  /\ local' = "returned"
  /\ UNCHANGED <<sceneVars, simulationDate, call>>

PositionNext ==
  \/ PositionReturns
  \/ PathReturns

SpecPosition == PositionInit /\ [][PositionNext]_vars

\* (|v| / a)^2 for a point v and a semi-major axis a
UnitDistanceSquared(v, a) ==
  LET ux == FDiv(v.x, a)
      uy == FDiv(v.y, a)
      uz == FDiv(v.z, a)
  IN  FMul(ux, ux) + FMul(uy, uy) + FMul(uz, uz)

\* |v| for a point v of an orbit of semi-major axis a
Distance(v, a) == FMul(Sqrt(UnitDistanceSquared(v, a)), a)

\* Distances are compared with the rounding of the fixed-point arithmetic
\* allowed for: a / 10000 where the division by 1 + e cos(nu) amplifies it
\* (e = 0.9 at apoapsis), 0.0003 for the orbits near a circle.

\* C11: every point of generateEllipsePoints and every position of
\* calculateOrbitalPosition lies at a distance from the origin within
\* [a(1 - e), a(1 + e)]; Earth's (a = 70, e = 0.017) within [68.81, 71.19]
OrbitWithinApsides ==
  local = "returned" =>
    \A j \in 1 .. Len(ret) :
      LET a == call.elements.semiMajorAxis
          e == call.elements.eccentricity
          d == Distance(ret[j], a)
      IN  /\ a - FMul(a, e) - (a \div 10000) <= d
          /\ d <= a + FMul(a, e) + (a \div 10000)
          /\ (a = 70 * Scale /\ e = 17000) =>
               (68810000 - 300 <= d /\ d <= 71190000 + 300)

\* C11 witness: the path of an inclined orbit of eccentricity 0.9 returned
\* with a point near periapsis and a point near apoapsis
ApsidesWitness ==
  /\ local = "returned"
  /\ call.op = "generateEllipsePoints"
  /\ call.elements.eccentricity = 900000
  /\ call.elements.inclination # 0
  /\ \E j, k \in 1 .. Len(ret) :
       LET a == call.elements.semiMajorAxis
       IN  /\ Distance(ret[j], a) < a \div 5
           /\ Distance(ret[k], a) > a + (a \div 10)

\* C12: for eccentricity 0 the position of calculateOrbitalPosition is at
\* distance semiMajorAxis from the origin for every time, speedMultiplier,
\* anomaly at epoch, periapsis argument, inclination and node
CircularDistance ==
  (local = "returned" /\ call.op = "calculateOrbitalPosition"
     /\ call.elements.eccentricity = 0) =>
    Abs(Distance(ret[1], call.elements.semiMajorAxis)
          - call.elements.semiMajorAxis) <= 300

\* C12 witness: a circular inclined orbit with rotated periapsis at a time
\* other than 0, the body off the reference plane
CircularWitness ==
  /\ local = "returned"
  /\ call.op = "calculateOrbitalPosition"
  /\ call.elements.eccentricity = 0
  /\ call.elements.inclination # 0
  /\ call.elements.periapsisArgument # 0
  /\ call.time # 0
  /\ call.speedMultiplier # Scale
  /\ ret[1].y # 0

\* the elements with the anomaly at epoch moved on by time * speedMultiplier
EpochMovedTo(elements, time, speedMultiplier) ==
  [elements EXCEPT !.meanAnomalyAtEpoch = @ + FMul(time, speedMultiplier)]

\* C13: the position for anomaly at epoch m, time t and speed s is the
\* position for anomaly at epoch m + t*s and time 0, at speed s and at speed 1
TimeConventionAgnostic ==
  (local = "returned" /\ call.op = "calculateOrbitalPosition") =>
    LET moved == EpochMovedTo(call.elements, call.time, call.speedMultiplier)
    IN  /\ ret[1] = calculateOrbitalPosition(moved, 0, call.speedMultiplier)
        /\ ret[1] = calculateOrbitalPosition(moved, 0, 1 * Scale)

\* C13 witness: a position returned for an eccentric orbit at a time and a
\* speed for which the body has left its place at the epoch
TimeConventionWitness ==
  /\ local = "returned"
  /\ call.op = "calculateOrbitalPosition"
  /\ call.time # 0
  /\ call.speedMultiplier # Scale
  /\ call.elements.eccentricity = 500000
  /\ call.elements.meanAnomalyAtEpoch # 0
  /\ ret[1] # calculateOrbitalPosition(call.elements, 0, call.speedMultiplier)

frameVars == <<warnings, crashed, cb, delta, frameCalls, frames, history,
               events, planets, planetPosition, moons, asteroids, kuiper>>

\* bodies a click can hit (userData.name of a mesh)
Selectable == {"Sun", "Earth", "Moon"}

\* toggleOrbits: showOrbits.value = !showOrbits.value
toggleOrbits == showOrbits' = ~showOrbits

\* toggleStars: showStars.value = !showStars.value
toggleStars == showStars' = ~showStars

\* onKeyDown, KeyH: showHelp.value = !showHelp.value
toggleHelp == showHelp' = ~showHelp

\* toggleCameraMode: isFlyMode.value = !isFlyMode.value
toggleCameraMode == isFlyMode' = ~isFlyMode

\* useCelestialSelection onClick: the first body hit becomes selectedBody,
\* a click on nothing clears it; isFollowing is left alone
onClick == selectedBody' \in Selectable \cup {"null"}

\* useCelestialSelection toggleFollow: nothing without a selection
toggleFollow ==
  isFollowing' = IF selectedBody = "null" THEN isFollowing ELSE ~isFollowing

\* the last handler run: its name, isPaused before it, and for a run of
\* consecutive cycleSpeed calls its length (1 .. 6, then 1 again) and the
\* speed it started from
ControlCall(op) ==
  LET continues == op = "cycleSpeed" /\ call.op = "cycleSpeed"
                     /\ call.run < Len(speedMultipliers)
  IN  [op |-> op, paused |-> isPaused,
       run |-> IF op # "cycleSpeed" THEN 0
               ELSE IF continues THEN call.run + 1 ELSE 1,
       speed |-> IF continues THEN call.speed ELSE simulationSpeed]

ControlsInit ==
  /\ SceneUnused
  /\ simulationDate \in NowSet
  /\ call = [op |-> "setup", paused |-> FALSE, run |-> 0,
             speed |-> speedMultipliers[1]]
  /\ ret = 0
  /\ local = 0

\* the pause button or the Space key
PauseControl ==
  /\ togglePause
  /\ call' = ControlCall("togglePause")
  /\ UNCHANGED <<currentSpeedIndex, simulationSpeed, simulationDate, frameVars,
                 uiVars, ret, local>>

\* the speed button
SpeedControl ==
  /\ cycleSpeed
  /\ call' = ControlCall("cycleSpeed")
  /\ UNCHANGED <<isPaused, simulationDate, frameVars, uiVars, ret, local>>

\* the date buttons
NowControl ==
  /\ resetToNow
  /\ call' = ControlCall("resetToNow")
  /\ UNCHANGED <<isPaused, currentSpeedIndex, simulationSpeed, frameVars,
                 uiVars, ret, local>>

EpochControl ==
  /\ jumpToEpoch
  /\ call' = ControlCall("jumpToEpoch")
  /\ UNCHANGED <<isPaused, currentSpeedIndex, simulationSpeed, frameVars,
                 uiVars, ret, local>>

\* the orbit and star buttons, the H key, the camera mode button
OrbitsControl ==
  /\ toggleOrbits
  /\ call' = ControlCall("toggleOrbits")
  /\ UNCHANGED <<isPaused, currentSpeedIndex, simulationSpeed, simulationDate,
                 frameVars, showStars, showHelp, isFlyMode, selectedBody,
                 isFollowing, ret, local>>

StarsControl ==
  /\ toggleStars
  /\ call' = ControlCall("toggleStars")
  /\ UNCHANGED <<isPaused, currentSpeedIndex, simulationSpeed, simulationDate,
                 frameVars, showOrbits, showHelp, isFlyMode, selectedBody,
                 isFollowing, ret, local>>

HelpControl ==
  /\ toggleHelp
  /\ call' = ControlCall("toggleHelp")
  /\ UNCHANGED <<isPaused, currentSpeedIndex, simulationSpeed, simulationDate,
                 frameVars, showOrbits, showStars, isFlyMode, selectedBody,
                 isFollowing, ret, local>>

CameraModeControl ==
  /\ toggleCameraMode
  /\ call' = ControlCall("toggleCameraMode")
  /\ UNCHANGED <<isPaused, currentSpeedIndex, simulationSpeed, simulationDate,
                 frameVars, showOrbits, showStars, showHelp, selectedBody,
                 isFollowing, ret, local>>

\* a click on the canvas
ClickControl ==
  /\ onClick
  /\ call' = ControlCall("onClick")
  /\ UNCHANGED <<isPaused, currentSpeedIndex, simulationSpeed, simulationDate,
                 frameVars, showOrbits, showStars, showHelp, isFlyMode,
                 isFollowing, ret, local>>

\* the F key (with a body selected) or the follow button
FollowControl ==
  /\ toggleFollow
  /\ call' = ControlCall("toggleFollow")
  /\ UNCHANGED <<isPaused, currentSpeedIndex, simulationSpeed, simulationDate,
                 frameVars, showOrbits, showStars, showHelp, isFlyMode,
                 selectedBody, ret, local>>

ControlsNext ==
  \/ PauseControl
  \/ SpeedControl
  \/ NowControl
  \/ EpochControl
  \/ OrbitsControl
  \/ StarsControl
  \/ HelpControl
  \/ CameraModeControl
  \/ ClickControl
  \/ FollowControl

SpecControls == ControlsInit /\ [][ControlsNext]_vars

\* C15: the pause state is Running or Paused and starts Running; each
\* togglePause flips it and two in a row restore it; in every state a
\* togglePause into the other state is possible
PauseMachine ==
  /\ isPaused = FALSE
  /\ [](isPaused \in {FALSE, TRUE})
  /\ [](ENABLED (PauseControl /\ isPaused' # isPaused))
  /\ [][call'.op = "togglePause" => isPaused' = ~isPaused]_vars
  /\ [][(call.op = "togglePause" /\ call'.op = "togglePause") =>
          isPaused' = call.paused]_vars

\* C15 witness: paused, resumed and paused again, with other controls used
\* meanwhile
PauseAgainWitness ==
  /\ isPaused
  /\ call.op = "togglePause" /\ ~call.paused
  /\ simulationSpeed # speedMultipliers[1]
  /\ ~showOrbits
  /\ simulationDate = EpochDate

\* the multiplier after s in the cycle 1, 2, 4, 6, 8, 10, 1
NextSpeed(s) ==
  IF s = 1 * Scale THEN 2 * Scale
  ELSE IF s = 10 * Scale THEN 1 * Scale
  ELSE s + 2 * Scale

\* C16: simulationSpeed is one of 1, 2, 4, 6, 8, 10 and is
\* speedMultipliers[currentSpeedIndex]; each cycleSpeed moves to the next
\* value, from 10 back to 1; six cycleSpeed calls in a row restore the speed
SpeedCycle ==
  /\ [](simulationSpeed \in {1 * Scale, 2 * Scale, 4 * Scale, 6 * Scale,
                             8 * Scale, 10 * Scale})
  /\ [](currentSpeedIndex \in 0 .. 5
        /\ simulationSpeed = speedMultipliers[currentSpeedIndex + 1])
  /\ [][call'.op = "cycleSpeed" => simulationSpeed' = NextSpeed(simulationSpeed)]_vars
  /\ []((call.op = "cycleSpeed" /\ call.run = 6) => simulationSpeed = call.speed)

\* C16 witness: six cycleSpeed calls in a row that started from speed 4
\* and so wrapped from 10 to 1 on the way
SpeedCycleWitness ==
  /\ call.op = "cycleSpeed" /\ call.run = 6
  /\ call.speed = 4 * Scale
  /\ simulationSpeed = 4 * Scale

\* ------------------------------------------------------------------------
\* The mounted scene with every control: who writes simulationDate
\* ------------------------------------------------------------------------

\* what a view or selection handler leaves alone in the scene
ViewEventFrame ==
  UNCHANGED <<isPaused, currentSpeedIndex, simulationSpeed, simulationDate,
              warnings, crashed, cb, delta, frameCalls, frames, history,
              planets, planetPosition, moons, asteroids, kuiper, callVars>>

\* toggleOrbits (button)
ToggleOrbits ==
  /\ UiEvent
  /\ toggleOrbits
  /\ ViewEventFrame
  /\ UNCHANGED <<showStars, showHelp, isFlyMode, selectedBody, isFollowing>>

\* toggleStars (button)
ToggleStars ==
  /\ UiEvent
  /\ toggleStars
  /\ ViewEventFrame
  /\ UNCHANGED <<showOrbits, showHelp, isFlyMode, selectedBody, isFollowing>>

\* toggleCameraMode (button)
ToggleCameraMode ==
  /\ UiEvent
  /\ toggleCameraMode
  /\ ViewEventFrame
  /\ UNCHANGED <<showOrbits, showStars, showHelp, selectedBody, isFollowing>>

\* a click on the canvas
Click ==
  /\ UiEvent
  /\ onClick
  /\ ViewEventFrame
  /\ UNCHANGED <<showOrbits, showStars, showHelp, isFlyMode, isFollowing>>

\* KeyF with a body selected
KeyFollow ==
  /\ UiEvent
  /\ selectedBody # "null"
  /\ toggleFollow
  /\ ViewEventFrame
  /\ UNCHANGED <<showOrbits, showStars, showHelp, isFlyMode, selectedBody>>

\* the scene after mount, with one draw of Math.random for every moon
OwnershipInit ==
  /\ Init
  /\ \A m \in Moons : moons[m].seed = 0

OwnershipNext ==
  \/ Next
  \/ ToggleOrbits
  \/ ToggleStars
  \/ ToggleCameraMode
  \/ Click
  \/ KeyFollow

SpecOwnership == OwnershipInit /\ [][OwnershipNext]_vars

\* a handler ran in this step (no frame is in progress)
EventStep == cb = 0 /\ cb' = 0 /\ events' = events + 1

\* C17: simulationDate is written only by advanceTime (called by animate
\* while running), resetToNow and jumpToEpoch (setDate is not wired to any
\* control of the scene); a step that changes isPaused, the speed, the
\* orbit or star visibility, the camera mode, the selection or the follow
\* flag, and every planet, moon and belt callback, leaves it as it was.
DateOwnership ==
  [][/\ simulationDate' # simulationDate =>
          \/ AnimateStep /\ ~isPaused
                /\ simulationDate' = AdvancedDate(simulationDate, delta', simulationSpeed)
          \/ EventStep /\ simulationDate' \in NowSet \cup {EpochDate}
                /\ UNCHANGED <<isPaused, currentSpeedIndex, simulationSpeed, uiVars>>
     /\ (\/ isPaused' # isPaused
         \/ currentSpeedIndex' # currentSpeedIndex
         \/ simulationSpeed' # simulationSpeed
         \/ uiVars' # uiVars) => simulationDate' = simulationDate
     /\ RenderStep => simulationDate' = simulationDate]_vars

\* a frame has run to its end after the orbits were hidden and a body was
\* selected, with the clock running
OwnershipWitness ==
  /\ frames >= 1
  /\ cb = 0
  /\ ~showOrbits
  /\ selectedBody = "Earth"
  /\ ~isPaused
  /\ simulationDate \notin NowSet \cup {EpochDate}

\* ------------------------------------------------------------------------
\* Axial spin
\* ------------------------------------------------------------------------

\* rotationSpeed * delta * simulationSpeed for a rotationSpeed prop
SpinIncrement(rotationSpeed) == FMul(FMul(rotationSpeed, delta), simulationSpeed)

\* C20: in an unpaused frame the callback of a planet or moon whose
\* rotationSpeed is configured (zero, positive or negative) adds exactly
\* rotationSpeed * delta * simulationSpeed to its rotation.y
SpinByConfiguredSpeed ==
  [][(RenderStep /\ ~isPaused /\ ~crashed') =>
       /\ \A p \in Planets :
            (/\ Current.kind = "planet" /\ Current.name = p
             /\ "rotationSpeed" \in DOMAIN PlanetProps[p]) =>
              planets'[p].rotationY - planets[p].rotationY
                = SpinIncrement(PlanetProps[p].rotationSpeed)
       /\ \A m \in Moons :
            (/\ Current.kind = "moon" /\ Current.name = m
             /\ "rotationSpeed" \in DOMAIN MoonProps[m]) =>
              moons'[m].rotationY - moons[m].rotationY
                = SpinIncrement(MoonProps[m].rotationSpeed)]_vars

\* ------------------------------------------------------------------------
\* The four functions of utils/orbitalMechanics called again and again,
\* with the state of the application changing between the calls
\* ------------------------------------------------------------------------

MaxPureCalls == 3

\* the calls made: a function with the orbital elements and two numbers
\* (meanAnomaly or eccentricAnomaly or time in x, speedMultiplier or
\* segments in y)
PureCalls ==
  {[op |-> op, elements |-> elements, x |-> 2500000, y |-> IF op = "generateEllipsePoints" THEN 4 ELSE 2 * Scale] :
     op \in {"solveKeplerEquation", "eccentricToTrueAnomaly",
             "calculateOrbitalPosition", "generateEllipsePoints"},
     elements \in {[semiMajorAxis |-> 70 * Scale, eccentricity |-> 17000,
                    periapsisArgument |-> 1797689, meanAnomalyAtEpoch |-> 5258087],
                   [semiMajorAxis |-> 3500000, eccentricity |-> 500000,
                    periapsisArgument |-> 0, meanAnomalyAtEpoch |-> 0,
                    inclination |-> 122173, longitudeOfAscendingNode |-> 1 * Scale]}}

\* what the call returns, as a sequence
Evaluate(c) ==
  CASE c.op = "solveKeplerEquation" ->
         <<solveKeplerEquation(c.x, c.elements.eccentricity,
                               DefaultTolerance, DefaultMaxIterations)>>
    [] c.op = "eccentricToTrueAnomaly" ->
         <<eccentricToTrueAnomaly(c.x, c.elements.eccentricity)>>
    [] c.op = "calculateOrbitalPosition" ->
         <<calculateOrbitalPosition(c.elements, c.x, c.y)>>
    [] c.op = "generateEllipsePoints" ->
         generateEllipsePoints(c.elements, c.y)

\* a function that keeps the result of its last call in a module variable
\* and returns it while the simulation is paused
PureResultKeptWhilePaused(c) ==
  IF isPaused /\ call.op = c.op THEN ret.result ELSE Evaluate(c)

\* the functions have no state of their own: the result is a function of
\* the arguments
PureResult(c) == Evaluate(c)

\* no call yet; local maps the calls made to their first results, ret
\* holds the number of calls, the last result, whether it is the result of
\* the first call with these arguments (same), and whether the call
\* repeated an earlier one after a different call (gap)
PureInit ==
  /\ SceneUnused
  /\ simulationDate \in NowSet
  /\ call = NoCall
  /\ ret = [n |-> 0, same |-> TRUE, gap |-> FALSE, result |-> <<>>]
  /\ local = [c \in {} |-> <<>>]

\* one call of one of the four functions
PureCall ==
  /\ ret.n < MaxPureCalls
  /\ \E c \in PureCalls :
       LET result == PureResult(c)
       IN  /\ call' = c
           /\ ret' = [n |-> ret.n + 1,
                      same |-> (c \in DOMAIN local => local[c] = result),
                      gap |-> (c \in DOMAIN local /\ call # c),
                      result |-> result]
           /\ local' = IF c \in DOMAIN local THEN local
                        ELSE [d \in DOMAIN local \cup {c} |->
                                IF d = c THEN result ELSE local[d]]
  /\ UNCHANGED <<sceneVars, simulationDate>>

\* between two calls: togglePause
PauseBetweenCalls ==
  /\ togglePause
  /\ UNCHANGED <<currentSpeedIndex, simulationSpeed, simulationDate, frameVars,
                 uiVars, callVars>>

\* between two calls: jumpToEpoch
JumpBetweenCalls ==
  /\ simulationDate # EpochDate
  /\ jumpToEpoch
  /\ UNCHANGED <<isPaused, currentSpeedIndex, simulationSpeed, frameVars,
                 uiVars, callVars>>

\* between two calls: resetToNow
ResetBetweenCalls ==
  /\ simulationDate = EpochDate
  /\ resetToNow
  /\ UNCHANGED <<isPaused, currentSpeedIndex, simulationSpeed, frameVars,
                 uiVars, callVars>>

PureNext ==
  \/ PureCall
  \/ PauseBetweenCalls
  \/ JumpBetweenCalls
  \/ ResetBetweenCalls

SpecPure == PureInit /\ [][PureNext]_vars

MaxLookups == 2

\* body names: those of the tables, bodies of the scene without entry, the
\* empty name, and the names of inherited members
LookupNames ==
  DOMAIN ROTATION_PERIODS \cup {"Sun", "Moon", "Vulcan", ""} \cup ObjectPrototype

\* no call yet; local counts the calls
LookupInit ==
  /\ SceneUnused
  /\ simulationDate = EpochDate
  /\ call = NoCall
  /\ ret = 0
  /\ local = 0

\* getRotationPeriod(bodyName)
RotationPeriodReturns ==
  /\ local < MaxLookups
  /\ \E bodyName \in LookupNames :
       /\ call' = [op |-> "getRotationPeriod", bodyName |-> bodyName,
                   daysSinceEpoch |-> Days(0, 0)]
       /\ ret' = getRotationPeriod(bodyName)
  /\ local' = local + 1
  /\ UNCHANGED <<sceneVars, simulationDate>>

\* calculateMeanAnomaly(bodyName, daysSinceEpoch)
MeanAnomalyLookup ==
  /\ local < MaxLookups
  /\ \E bodyName \in LookupNames, d \in {Days(0, 0), Days(9805, 37000123)} :
       /\ call' = [op |-> "calculateMeanAnomaly", bodyName |-> bodyName,
                   daysSinceEpoch |-> d]
       /\ ret' = calculateMeanAnomaly(bodyName, d)
  /\ local' = local + 1
  /\ UNCHANGED <<sceneVars, simulationDate>>

LookupNext ==
  \/ RotationPeriodReturns
  \/ MeanAnomalyLookup

SpecLookup == LookupInit /\ [][LookupNext]_vars

\* C6: for every body name that is not an entry of the ephemeris table and
\* every daysSinceEpoch, calculateMeanAnomaly returns 0, warns and does not
\* throw
MissingEphemerisDefault ==
  (call.op = "calculateMeanAnomaly"
     /\ call.bodyName \notin DOMAIN PLANET_EPHEMERIS) =>
    ret = [value |-> 0, warned |-> TRUE, thrown |-> FALSE]

\* C22: getRotationPeriod returns the table value of a listed body, negative
\* exactly for Venus, Uranus and Pluto, and 1 for every other name
RotationPeriodDefault ==
  call.op = "getRotationPeriod" =>
    IF call.bodyName \in DOMAIN ROTATION_PERIODS
    THEN /\ ret = ROTATION_PERIODS[call.bodyName]
         /\ ret < 0 <=> call.bodyName \in {"Venus", "Uranus", "Pluto"}
    ELSE ret = Scale

\* ------------------------------------------------------------------------
\* The two animation-frame chains: animate (TheExperience) and the render
\* loop that runs the onBeforeRender callbacks
\* ------------------------------------------------------------------------

MaxTicks == 3

\* The browser runs the callbacks requested for a frame in the order of
\* their requests.  animate requests itself again at its end, and the render
\* loop runs once a frame; nothing in the repository orders the two chains,
\* so either may have been requested first when the scene is mounted.
\* (TresCanvas is a child of TheExperience and is mounted before
\* onMounted of TheExperience calls animate.)  local holds the callbacks
\* requested for the next frame, those still to run in this frame, whether
\* advanceTime was called in this frame, and the number of frames.
RafInit ==
  /\ SceneUnused
  /\ simulationDate \in NowSet
  /\ call = NoCall
  /\ ret = [evaluated |-> FALSE, advanced |-> FALSE, daysSinceEpoch |-> daysSinceEpoch]
  /\ local \in {[requested |-> q, running |-> <<>>, advanced |-> FALSE, tick |-> 0] :
                  q \in {<<"render", "animate">>, <<"animate", "render">>}}

\* the browser starts a frame
AnimationFrame ==
  /\ local.running = <<>>
  /\ local.tick < MaxTicks
  /\ local' = [requested |-> <<>>, running |-> local.requested,
               advanced |-> FALSE, tick |-> local.tick + 1]
  /\ UNCHANGED <<sceneVars, simulationDate, call, ret>>

\* animate, as a callback of the frame
AnimateCallback ==
  /\ local.running # <<>> /\ Head(local.running) = "animate"
  /\ \E d \in FrameDeltas :
       /\ delta' = d
       /\ simulationDate' = IF AnimateAdvances(isPaused)
                            THEN AdvancedDate(simulationDate, d, simulationSpeed)
                            ELSE simulationDate
  /\ local' = [local EXCEPT !.running = Tail(@),
                            !.requested = Append(@, "animate"),
                            !.advanced = AnimateAdvances(isPaused)]
  /\ call' = [op |-> "animate"]
  /\ UNCHANGED <<isPaused, currentSpeedIndex, simulationSpeed, warnings, crashed,
                 cb, frameCalls, frames, history, events, planets,
                 planetPosition, moons, asteroids, kuiper, uiVars, ret>>

\* the render loop, as a callback of the frame: every Planet evaluates
\* calculateOrbitalPosition with the daysSinceEpoch of this moment
RenderCallback ==
  /\ local.running # <<>> /\ Head(local.running) = "render"
  /\ local' = [local EXCEPT !.running = Tail(@),
                            !.requested = Append(@, "render")]
  /\ call' = [op |-> "render"]
  /\ ret' = [evaluated |-> BodyAdvances(isPaused), advanced |-> local.advanced,
             daysSinceEpoch |-> daysSinceEpoch]
  /\ UNCHANGED <<sceneVars, simulationDate>>

\* togglePause, between two frames
PauseBetweenFrames ==
  /\ local.running = <<>>
  /\ PauseBetweenCalls

RafNext ==
  \/ AnimationFrame
  \/ AnimateCallback
  \/ RenderCallback
  \/ PauseBetweenFrames

SpecRaf == RafInit /\ [][RafNext]_vars

\* C23: in an unpaused frame advanceTime has been called before the planets
\* evaluate calculateOrbitalPosition in that frame
ClockAdvancedFirst ==
  (call.op = "render" /\ ret.evaluated) => ret.advanced

\* ------------------------------------------------------------------------
\* Planets before their moons
\* ------------------------------------------------------------------------

\* C24: whenever a moon has computed its position in a frame, its planet has
\* computed its own in that frame before: the shared planetPosition is the
\* planet's position for the date of the frame, and the moon's position is
\* composed with it
ParentFirst ==
  \A m \in Moons :
    HasCall("calculateOrbitalPosition", m) =>
      LET p == ParentOf(m)
      IN  /\ HasCall("calculateOrbitalPosition", p)
          /\ planetPosition[p] = planets[p].position
          /\ cb > 0 => planetPosition[p] =
                calculateOrbitalPosition(PlanetElements(p, daysSinceEpoch), 0, Scale)
          /\ moons[m].position =
                MoonWorldPosition(planetPosition[p], MoonOffset(m),
                                  axialTiltRadians(p))

\* C24 witness: in the second running frame the planet has left its
\* position of the first and its moon has just been updated
ParentFirstWitness ==
  /\ frames = 1 /\ cb = 3
  /\ Len(history) = 1 /\ ~history[1].paused /\ ~isPaused
  /\ HasCall("calculateOrbitalPosition", "Moon")
  /\ HasCall("advanceTime", "")

\* ------------------------------------------------------------------------
\* The orbit line of a moon (Moon: updateOrbitLine and its watcher)
\* ------------------------------------------------------------------------

\* updateOrbitLine: the ellipse points tilted and offset by planetPosition,
\* with the planet position they were built from (PathSegments segments
\* stand for the 64 of the source)
updateOrbitLine(m, planetPos) ==
  LET points == generateEllipsePoints(MoonElements(m, moons[m].seed), PathSegments)
  IN  [origin |-> planetPos,
       points |-> [i \in DOMAIN points |->
                     MoonWorldPosition(planetPos, points[i],
                                       axialTiltRadians(ParentOf(m)))]]

\* no job of the watcher of props.planetPosition is waiting
LinesCurrent == \A m \in Moons : local[m].origin = planetPosition[ParentOf(m)]

\* the scene after mount: onMounted of Moon has built the line around the
\* initial planetPosition; local holds the line of every moon
OrbitLineInit ==
  /\ SceneInit
  /\ \A m \in Moons : moons[m].seed = 0
  /\ call = NoCall
  /\ ret = 0
  /\ local = [m \in Moons |-> updateOrbitLine(m, planetPosition[ParentOf(m)])]

\* The watcher is not synchronous: the change of planetPosition made in the
\* callback of the planet queues a job, which runs when the callback of the
\* animation frame (the onBeforeRender callbacks and the rendering) has
\* returned
FlushJobs ==
  /\ cb = 0
  /\ ~LinesCurrent
  /\ local' = [m \in Moons |-> updateOrbitLine(m, planetPosition[ParentOf(m)])]
  /\ UNCHANGED <<sceneVars, simulationDate, call, ret>>

\* animate, once the jobs of the frame before have run
LineFrame == LinesCurrent /\ Animate

\* togglePause, once the jobs of the frame before have run
LinePause == LinesCurrent /\ TogglePause

OrbitLineNext ==
  \/ LineFrame
  \/ LinePause
  \/ RenderPlanet
  \/ RenderMoon
  \/ RenderAsteroids
  \/ RenderKuiper
  \/ FlushJobs

SpecOrbitLine == OrbitLineInit /\ [][OrbitLineNext]_vars

\* C25: when a frame has been rendered, the orbit line of every moon is its
\* ellipse tilted and offset by the planet position that the moon's live
\* position of that frame was composed with
OrbitLineFollows ==
  cb = 0 =>
    \A m \in Moons :
      local[m] = updateOrbitLine(m, planetPosition[ParentOf(m)])

\* ------------------------------------------------------------------------
\* Planet positions and the displayed date
\* ------------------------------------------------------------------------

\* C26: in every frame, whatever controls were used before it, once the
\* callbacks of the planets and moons have run (the callback of the outer
\* belt, which touches neither the planets nor the date, ends the frame)
\* every planet is at calculateOrbitalPosition for the mean anomaly that
\* calculateMeanAnomaly gives for its name and the current daysSinceEpoch
PositionsAgreeWithDate ==
  (cb = Len(RenderOrder) /\ ~crashed) =>
    \A p \in Planets :
      planets[p].position =
        calculateOrbitalPosition(PlanetElements(p, daysSinceEpoch), 0, Scale)

----------------------------------------------------------------------------
\* AsteroidBelt: generateRadius (components/AsteroidBelt.vue)

\* KIRKWOOD_GAPS, as fractions of the belt range
KIRKWOOD_GAPS ==
  << [center |-> 250000, width |-> 40000],
     [center |-> 420000, width |-> 50000],
     [center |-> 580000, width |-> 40000],
     [center |-> 720000, width |-> 50000],
     [center |-> 850000, width |-> 40000] >>

\* isInKirkwoodGap(normalizedRadius): Math.abs(n - center) < width / 2
isInKirkwoodGap(normalizedRadius) ==
  \E i \in DOMAIN KIRKWOOD_GAPS :
    LET gap == KIRKWOOD_GAPS[i]
        d   == normalizedRadius - gap.center
    IN  2 * (IF d < 0 THEN -d ELSE d) < gap.width

\* the attempts of the loop of generateRadius (while (attempts < 10))
MaxAttempts == 10

\* radii generated per belt (the loop of watchEffect, props.count)
MaxRadii == 2

\* the values Math.random() returns: in [0, 1); inside a gap, at the edge
\* of one, between gaps and at both ends of the range
RandomDraws == {0, 250000, 270000, 500000, 850000, 999999}

\* minRadius and maxRadius of the belts the scenes mount, in scene units
BeltProps == { [minRadius |-> 120, maxRadius |-> 170],
               [minRadius |-> 45, maxRadius |-> 60] }

\* props.minRadius + normalized * range
RadiusAt(props, normalized) ==
  props.minRadius * Scale + normalized * (props.maxRadius - props.minRadius)

\* the fraction of the belt range a radius is at
NormalizedRadius(props, radius) ==
  (radius - props.minRadius * Scale) \div (props.maxRadius - props.minRadius)

\* a belt is mounted; local holds the attempts of the running call and the
\* radii generated
RadiusInit ==
  /\ SceneUnused
  /\ simulationDate = EpochDate
  /\ call = NoCall
  /\ ret = [returned |-> FALSE]
  /\ local = [attempts |-> 0, radii |-> 0]

\* watchEffect calls generateRadius(): let attempts = 0
GenerateRadius ==
  /\ local.radii < MaxRadii
  /\ call.op = "generateRadius" => ret.returned
  /\ \E props \in BeltProps :
       /\ call.op = "generateRadius" => call.props = props
       /\ call' = [op |-> "generateRadius", props |-> props]
  /\ ret' = [returned |-> FALSE]
  /\ local' = [local EXCEPT !.attempts = 0]
  /\ UNCHANGED <<sceneVars, simulationDate>>

\* one pass of the loop: a draw outside every gap is returned, a draw
\* inside a gap counts an attempt
Attempt ==
  /\ call.op = "generateRadius" /\ ~ret.returned
  /\ local.attempts < MaxAttempts
  /\ \E normalized \in RandomDraws :
       IF ~isInKirkwoodGap(normalized)
       THEN /\ ret' = [returned |-> TRUE, fallback |-> FALSE,
                       radius |-> RadiusAt(call.props, normalized)]
            /\ local' = [local EXCEPT !.radii = @ + 1]
       ELSE /\ ret' = ret
            /\ local' = [local EXCEPT !.attempts = @ + 1]
  /\ UNCHANGED <<sceneVars, simulationDate, call>>

\* after the loop: return props.minRadius + Math.random() * range
Fallback ==
  /\ call.op = "generateRadius" /\ ~ret.returned
  /\ local.attempts >= MaxAttempts
  /\ \E normalized \in RandomDraws :
       ret' = [returned |-> TRUE, fallback |-> TRUE,
               radius |-> RadiusAt(call.props, normalized)]
  /\ local' = [local EXCEPT !.radii = @ + 1]
  /\ UNCHANGED <<sceneVars, simulationDate, call>>

RadiusNext ==
  \/ GenerateRadius
  \/ Attempt
  \/ Fallback

SpecRadius == RadiusInit /\ [][RadiusNext]_vars

\* C27: every radius generateRadius returns is at a fraction of the belt
\* range in [0, 1) that is in no Kirkwood gap
RadiusAvoidsGaps ==
  (call.op = "generateRadius" /\ ret.returned) =>
    LET n == NormalizedRadius(call.props, ret.radius)
    IN  /\ 0 <= n /\ n < Scale
        /\ ~isInKirkwoodGap(n)

----------------------------------------------------------------------------
\* useCelestialSelection on its own: onClick, toggleFollow, clearSelection

\* userData.type of the selectable bodies
BodyType(name) ==
  CASE name = "Sun" -> "sun"
    [] name = "Moon" -> "moon"
    [] OTHER -> "planet"

\* toggleFollow: the follow distance of a body type
FollowDistanceFor(type) ==
  CASE type = "sun" -> 50
    [] type = "planet" -> 15
    [] type = "moon" -> 5

\* clearSelection: selectedBody.value = null; isFollowing.value = false
clearSelection ==
  /\ selectedBody' = "null"
  /\ isFollowing' = FALSE

\* the composable is set up: nothing selected, not following,
\* followDistance (local) 20
SelectionInit ==
  /\ SceneUnused
  /\ simulationDate = EpochDate
  /\ call = NoCall
  /\ ret = 0
  /\ local = 20

\* a click on the canvas: on a body, or on empty space
SelectionClick ==
  /\ onClick
  /\ call' = [op |-> "onClick", selected |-> selectedBody,
              following |-> isFollowing]
  /\ UNCHANGED <<isPaused, currentSpeedIndex, simulationSpeed, simulationDate,
                 frameVars, showOrbits, showStars, showHelp, isFlyMode,
                 isFollowing, ret, local>>

\* toggleFollow()
SelectionFollow ==
  /\ toggleFollow
  /\ local' = IF selectedBody = "null" THEN local
              ELSE FollowDistanceFor(BodyType(selectedBody))
  /\ call' = [op |-> "toggleFollow", selected |-> selectedBody,
              following |-> isFollowing]
  /\ UNCHANGED <<isPaused, currentSpeedIndex, simulationSpeed, simulationDate,
                 frameVars, showOrbits, showStars, showHelp, isFlyMode,
                 selectedBody, ret>>

\* clearSelection()
SelectionClear ==
  /\ clearSelection
  /\ call' = [op |-> "clearSelection", selected |-> selectedBody,
              following |-> isFollowing]
  /\ UNCHANGED <<isPaused, currentSpeedIndex, simulationSpeed, simulationDate,
                 frameVars, showOrbits, showStars, showHelp, isFlyMode,
                 ret, local>>

SelectionNext ==
  \/ SelectionClick
  \/ SelectionFollow
  \/ SelectionClear

SpecSelection == SelectionInit /\ [][SelectionNext]_vars

\* C28: after any sequence of canvas clicks, toggleFollow and
\* clearSelection calls, isFollowing implies that a body is selected
FollowingHasSelection == isFollowing => selectedBody # "null"

----------------------------------------------------------------------------
\* Moons and the clock

\* C29: a moon's phase does not follow the clock: a control (jumpToEpoch
\* and resetToNow among them) and animate leave every moon and the position
\* its parent hands down as they were, and a moon's orbitTime changes only
\* in that moon's callback of a running frame, by speed * delta *
\* simulationSpeed
MoonPhaseIndependent ==
  [][/\ (EventStep \/ AnimateStep) =>
          /\ moons' = moons
          /\ planetPosition' = planetPosition
     /\ \A m \in Moons :
          moons'[m].orbitTime # moons[m].orbitTime =>
            /\ RenderStep /\ Current.kind = "moon" /\ Current.name = m
            /\ ~isPaused
            /\ moons'[m].orbitTime =
                 moons[m].orbitTime
                   + FMul(FMul(MoonProps[m].speed, delta), simulationSpeed)]_vars

\* C29 witness: a moon has moved in a running frame and the date was then
\* put back to the epoch
MoonPhaseWitness ==
  /\ cb = 0 /\ frames >= 1 /\ events >= 1
  /\ simulationDate = EpochDate
  /\ \E m \in Moons : moons[m].orbitTime > 0

----------------------------------------------------------------------------
\* TheExperience: the life of the animation loop (onMounted, animate,
\* onUnmounted)

\* requestAnimationFrame(animate): the browser hands out the next handle
\* (handles are positive) and keeps the request until it runs or is
\* cancelled
requestAnimationFrame(loop) ==
  [loop EXCEPT !.pending = @ \cup {loop.nextHandle},
               !.animationFrameId = loop.nextHandle,
               !.nextHandle = @ + 1]

\* onUnmounted that leaves the request in place
cancelNothing(pending, handle) == pending

\* onUnmounted: if (animationFrameId) cancelAnimationFrame(animationFrameId);
\* animationFrameId is undefined (0 here) until animate has run
cancelAnimationFrame(pending, handle) ==
  IF handle # 0 THEN pending \ {handle} ELSE pending

\* the component is set up and not mounted yet: no request, animationFrameId
\* not assigned.  local holds the state of the component, the requests of
\* animate the browser holds, animationFrameId, the next handle of the
\* browser, the runs of animate and whether animate ran after onUnmounted
LoopInit ==
  /\ SceneUnused
  /\ simulationDate \in NowSet
  /\ call = NoCall
  /\ ret = 0
  /\ local = [state |-> "setup", pending |-> {}, animationFrameId |-> 0,
              nextHandle |-> 1, tick |-> 0, late |-> FALSE]

\* the body of animate: advanceTime unless paused, then the next request
animateRuns(d, loop) ==
  /\ delta' = d
  /\ simulationDate' = IF AnimateAdvances(isPaused)
                       THEN AdvancedDate(simulationDate, d, simulationSpeed)
                       ELSE simulationDate
  /\ local' = requestAnimationFrame(
                [loop EXCEPT !.tick = @ + 1,
                             !.late = @ \/ loop.state = "unmounted"])
  /\ call' = [op |-> "animate", advanced |-> AnimateAdvances(isPaused)]
  /\ UNCHANGED <<isPaused, currentSpeedIndex, simulationSpeed, warnings, crashed,
                 cb, frameCalls, frames, history, events, planets,
                 planetPosition, moons, asteroids, kuiper, uiVars, ret>>

\* onMounted: lastTime = performance.now(); animate()
MountLoop ==
  /\ local.state = "setup"
  /\ animateRuns(0, [local EXCEPT !.state = "mounted"])

\* the browser runs a pending request of animate
RunAnimate ==
  /\ local.tick < MaxTicks
  /\ \E handle \in local.pending, d \in FrameDeltas :
       animateRuns(d, [local EXCEPT !.pending = @ \ {handle}])

\* another requestAnimationFrame of the page (the render loop) takes a
\* handle
ForeignRequest ==
  /\ local.nextHandle <= 2 * MaxTicks
  /\ local' = [local EXCEPT !.nextHandle = @ + 1]
  /\ UNCHANGED <<sceneVars, simulationDate, call, ret>>

\* onUnmounted (of a component that was mounted, or was set up only)
UnmountLoop ==
  /\ local.state \in {"setup", "mounted"}
  /\ local' = [local EXCEPT
                 !.state = "unmounted",
                 !.pending = cancelAnimationFrame(@, local.animationFrameId)]
  /\ call' = [op |-> "onUnmounted", advanced |-> FALSE]
  /\ UNCHANGED <<sceneVars, simulationDate, ret>>

LoopNext ==
  \/ MountLoop
  \/ RunAnimate
  \/ ForeignRequest
  \/ UnmountLoop
  \/ PauseBetweenCalls

SpecLoop == LoopInit /\ [][LoopNext]_vars

\* C30: between onMounted and onUnmounted exactly one request of animate is
\* pending, the one animationFrameId names; after onUnmounted none is
\* pending, animate never runs again and the date is never advanced again
LoopLifecycle ==
  /\ [](local.state = "mounted" =>
          /\ Cardinality(local.pending) = 1
          /\ local.pending = {local.animationFrameId})
  /\ [](local.state = "unmounted" => local.pending = {} /\ ~local.late)
  /\ [][local.state = "unmounted" =>
          /\ simulationDate' = simulationDate
          /\ local'.tick = local.tick]_vars

\* C30 witness: the loop ran while mounted, also unpaused, and the component
\* was unmounted with a request pending
LoopUnmountedWitness ==
  /\ local.state = "unmounted"
  /\ call.op = "onUnmounted"
  /\ local.tick >= 2
  /\ local.animationFrameId > 1
  /\ simulationDate \notin NowSet

====
